---- MODULE Spec2Model ----
(***************************************************************************)
(* State-machine model of the realtime session orchestration core of       *)
(* openai-realtime-agents: the useUnifiedSession hook (session lifecycle,   *)
(* transport event dispatch), the in-session transcript it feeds, the      *)
(* UnifiedChatInterface transcription callbacks and the /api/chat/messages *)
(* persistence endpoint they write to.                                     *)
(***************************************************************************)
EXTENDS Integers, Sequences, FiniteSets, TLC

(***************************************************************************)
(* Bounds of the model.                                                    *)
(***************************************************************************)
\* connect() invocations that may be suspended at an await at the same time
MaxCalls == 2
\* RealtimeSession objects constructed in one run
MaxSessions == 2
\* status-change notifications (updateStatus calls) in one run
MaxNotifications == 5

\* transport/session events delivered to the handlers in one run
MaxEvents == 3
\* requests to /api/chat/messages the network holds at the same time
MaxInFlight == 2
\* analyser.fftSize, the length of the waveform: the code sets 2048
FftSize == 40
\* animation frames analysed in one run
MaxFrames == 3

Calls == 1..MaxCalls
SessionIds == 1..MaxSessions
\* sessionRef.current = null
NoSession == 0

\* the value of a field an event does not carry
Undefined == "undefined"

\* currentThreadId / voiceThreadIdRef.current: null, or the thread
\* createNewThread made for the voice session of this page
NoThread == "null"
VoiceThread == "voice"

VARIABLES
    \* ---- useUnifiedSession: React state and refs
    sessionStatus,      \* useState<SessionStatus>
    isVoiceMode,        \* useState(false)
    rendered,           \* the state values captured by the callbacks of the last render
    sessionRef,         \* useRef<RealtimeSession | null>: NoSession or a session id
    audioElementRef,    \* useRef<HTMLAudioElement | null>: TRUE = created and attached
    sessions,           \* every RealtimeSession object: "none" | "created" | "connected" | "closed"
    conn,               \* the connect() invocations: where each is suspended
    statusChanges,      \* number of options.onStatusChange notifications made
    timers,             \* pending greeting timeouts: the session each was set for, and
                        \* whether that session was open when the timeout was set
    sent,               \* per RealtimeSession, the events given to transport.sendEvent
    \* ---- TranscriptContext (in-session transcript)
    transcriptItems,    \* useState<TranscriptItem[]>: the MESSAGE items, in creation order
    \* ---- UnifiedChatInterface
    voiceThreadIdRef,   \* useRef<string | null>: NoThread or a thread id
    currentThreadId,    \* useState<string | null>
    messages,           \* useState<Message[]>: the rows last loaded by loadMessages
    cb,                 \* what the callbacks registered on the session closed over
    speakingState,      \* useState<'idle' | 'user' | 'assistant'>
    \* ---- EventContext
    loggedEvents,       \* the types of the events given to logServerEvent, in order
    \* ---- /api/chat/messages and its table
    db,                 \* the Message rows, in creation order
    reqs,               \* HTTP requests dispatched and not yet answered
    serverLog,          \* the error answers given: [kind, externalId, status]
    consoleErrors,      \* the failures console.error reported in save/updateMessageInThread
    \* ---- history of the run (for stating the claims)
    hist,               \* per itemId, the events delivered for it, in order
    delivered,          \* the types of the other transport events delivered, in order
    thrown,             \* the listeners that threw, the callbacks whose promise was rejected
    isPTTActive,        \* useState(false)
    isPTTUserSpeaking,  \* useState(false)
    lastCall,           \* the push-to-talk function of the hook called last
    pttCalls,           \* number of calls of the push-to-talk functions made
    unmatchedOn,        \* the session of the last handlePTTStart() made on a held
                        \* session with push-to-talk active, NoSession once
                        \* handlePTTEnd() has been called
    voiceAudioStream,   \* useState<MediaStream | null>: TRUE = the stream of the audio element
    \* ---- VoiceModal
    effectDeps,         \* [isOpen, audioStream] of the render whose effect ran last
    animationFrameRef,  \* useRef<number | null>: TRUE = a frame is requested
    audioContextRef,    \* useRef<AudioContext | null>: TRUE = holds a context
    openContexts,       \* number of AudioContext objects created and not closed
    audioData,          \* useState<AudioData>: what analyzeAudio set last
    loopData,           \* audioData as the running animate() closed over it
    smoothedData,       \* smoothedDataRef.current
    frame,              \* the samples analyzeAudio read last
    frames,             \* number of frames analysed
    \* ---- ChatInterface, /api/chat/threads, /api/chat/completion
    threadTable,        \* number of Thread rows; their ids are 1..threadTable
    messageTable,       \* the Message rows of the chat threads, in createdAt order
    chatThreadId,       \* ChatInterface's useState currentThreadId, NoChatThread = null
    chatCall,           \* where sendMessage / createNewThread is suspended
    openaiMessages,     \* the messages of the last chat.completions.create
    userMessage,        \* the row the last completion request stored, NoRow before
    chatSends,          \* number of sendMessage / onNewThread calls made
    \* ---- useVoiceToChat
    voiceItems,         \* the transcriptItems the hook was rendered with last
    voiceMode,          \* its isVoiceMode option
    voiceThread,        \* its currentThreadId option, NoThread = null
    processedItemsRef,  \* useRef(new Set<string>()): the itemIds marked processed
    voiceMessages,      \* the onVoiceMessage calls made, in order, each with the
                        \* itemId of the item it was made for
    voiceToggles,       \* number of changes of isVoiceMode made
    history,            \* the session's history (details.context.history): the
                        \* messages added, in order
    solo                \* per itemId, the transcript and the Message table of a run
                        \* that is given this item's events and requests only

sessionVars == <<sessionStatus, isVoiceMode, rendered, sessionRef, audioElementRef,
                 sessions, conn, statusChanges, timers, sent, voiceAudioStream>>

transcriptVars == <<transcriptItems, voiceThreadIdRef, currentThreadId, messages, cb,
                    db, reqs, serverLog, consoleErrors, hist, solo>>

\* state that only the handlers named with it touch
pttVars == <<isPTTActive, isPTTUserSpeaking, lastCall, pttCalls, unmatchedOn>>

\* VoiceModal: the effect and its animation loop, the audio features
loopVars == <<effectDeps, animationFrameRef, audioContextRef, openContexts>>

featureVars == <<audioData, loopData, smoothedData, frame, frames>>

modalVars == <<loopVars, featureVars>>

\* ChatInterface and the two routes it posts to
chatVars == <<threadTable, messageTable, chatThreadId, chatCall, openaiMessages,
              userMessage, chatSends>>

\* useVoiceToChat: its options, its ref, the calls it made
forwardVars == <<voiceItems, voiceMode, voiceThread, processedItemsRef, voiceMessages,
                 voiceToggles>>

quietVars == <<history, pttVars, modalVars, chatVars, forwardVars>>

eventVars == <<speakingState, loggedEvents, delivered, thrown, history>>

dispatchVars == <<speakingState, loggedEvents, delivered, thrown, quietVars>>

vars == <<sessionStatus, isVoiceMode, rendered, sessionRef, audioElementRef,
          sessions, conn, statusChanges, timers, sent, transcriptItems, voiceThreadIdRef, currentThreadId, messages,
          cb, db, reqs, serverLog, consoleErrors, hist, solo, speakingState, loggedEvents, delivered,
          thrown, history, isPTTActive, isPTTUserSpeaking, lastCall, pttCalls,
          unmatchedOn, voiceAudioStream, effectDeps, animationFrameRef, audioContextRef,
          openContexts, audioData, loopData, smoothedData, frame, frames,
          threadTable, messageTable, chatThreadId, chatCall, openaiMessages,
          userMessage, chatSends, voiceItems, voiceMode, voiceThread,
          processedItemsRef, voiceMessages, voiceToggles>>

(***************************************************************************)
(* useUnifiedSession: session lifecycle                                    *)
(***************************************************************************)
SessionStatus == {"DISCONNECTED", "CONNECTING", "CONNECTED"}

\* a connect() invocation: pc is the await it is suspended at ("idle": none),
\* sess the session whose connect() promise it awaits, res how the last
\* invocation in this slot ended, isPTTActive the value it closed over
IdleCall(res) == [pc |-> "idle", sess |-> NoSession, res |-> res, isPTTActive |-> FALSE]

\* the values of the state variables a render hands to its callbacks
Snapshot ==
    [sessionStatus |-> sessionStatus, isPTTActive |-> isPTTActive,
     isPTTUserSpeaking |-> isPTTUserSpeaking]

SessionInit ==
    /\ sessionStatus = "DISCONNECTED"
    /\ isVoiceMode = FALSE
    /\ rendered = [sessionStatus |-> "DISCONNECTED", isPTTActive |-> FALSE,
                   isPTTUserSpeaking |-> FALSE]
    /\ isPTTActive = FALSE
    /\ isPTTUserSpeaking = FALSE
    /\ lastCall = "none"
    /\ pttCalls = 0
    /\ unmatchedOn = NoSession
    /\ sessionRef = NoSession
    /\ audioElementRef = FALSE
    /\ sessions = [s \in SessionIds |-> "none"]
    /\ conn = [c \in Calls |-> IdleCall("none")]
    /\ statusChanges = 0
    /\ timers = {}
    /\ sent = [s \in SessionIds |-> <<>>]
    /\ voiceAudioStream = FALSE

\* React re-renders the hook: the callbacks handed out from now on close over
\* the current state
Render ==
    /\ UNCHANGED transcriptVars
    /\ UNCHANGED dispatchVars
    /\ rendered # Snapshot
    /\ rendered' = Snapshot
    /\ UNCHANGED <<sessionStatus, voiceAudioStream, isVoiceMode, sessionRef, audioElementRef, sessions, conn,
                   statusChanges, timers, sent>>

(***************************************************************************)
(* VoiceModal: analyzeAudio and smoothAudioData. The numbers of AudioData  *)
(* are kept in thousandths; divisions round down.                          *)
(***************************************************************************)
\* 1.0 as a number of AudioData
Unit == 1000
\* the largest element of a Uint8Array, and the element of a silent waveform
ByteMax == 255
ByteMid == 128
\* const smoothingFactor = 0.2; const decayFactor = 0.95 (hundredths)
smoothingFactor == 20
decayFactor == 95

\* analyser.frequencyBinCount (half of fftSize)
bufferLength == FftSize \div 2

Features == {"volume", "bass", "mid", "treble"}

\* the initial AudioData
NoAudioData == [k \in Features |-> 0]

Min(a, b) == IF a < b THEN a ELSE b
Max(a, b) == IF a > b THEN a ELSE b
Abs(a) == IF a < 0 THEN 0 - a ELSE a

\* Math.floor(bufferLength * 0.1), Math.floor(bufferLength * 0.5)
bassEnd == (bufferLength * 1) \div 10
midEnd == (bufferLength * 5) \div 10

\* what getByteFrequencyData and getByteTimeDomainData may give in one frame.
\* Element i of a sequence is index i - 1 of the array.
Silence ==
    [frequencyData |-> [i \in 1..bufferLength |-> 0],
     waveformData |-> [i \in 1..FftSize |-> ByteMid]]

FullScale ==
    [frequencyData |-> [i \in 1..bufferLength |-> ByteMax],
     waveformData |-> [i \in 1..FftSize |-> IF i % 2 = 0 THEN ByteMax ELSE 0]]

\* a low tone that reaches one bin into the mid band
LowTone ==
    [frequencyData |-> [i \in 1..bufferLength |-> IF i <= bassEnd + 1 THEN ByteMax ELSE 0],
     waveformData |-> [i \in 1..FftSize |-> IF i % 4 = 0 THEN ByteMid + 32 ELSE ByteMid]]

\* a rising spectrum under a faint signal
Rising ==
    [frequencyData |-> [i \in 1..bufferLength |-> ((i - 1) * ByteMax) \div bufferLength],
     waveformData |-> [i \in 1..FftSize |-> ByteMid + (i % 3)]]

Frames == {Silence, FullScale, LowTone, Rising}

\* before the first frame
NoFrame == [frequencyData |-> <<>>, waveformData |-> <<>>]

\* (waveformData[i] - 128), the amplitude in 128ths
Amplitude(w) == w - ByteMid

\* sum += amplitude * amplitude over the first n samples (in 128ths squared)
RECURSIVE SumSquares(_, _)
SumSquares(waveformData, n) ==
    IF n = 0 THEN 0
    ELSE SumSquares(waveformData, n - 1)
            + Amplitude(waveformData[n]) * Amplitude(waveformData[n])

\* peakAmplitude = Math.max(peakAmplitude, Math.abs(amplitude)) over the
\* first n samples (in 128ths)
RECURSIVE PeakAmplitude(_, _)
PeakAmplitude(waveformData, n) ==
    IF n = 0 THEN 0
    ELSE Max(PeakAmplitude(waveformData, n - 1), Abs(Amplitude(waveformData[n])))

\* Math.sqrt, rounded down
Sqrt(x) == CHOOSE r \in 0..ByteMid : r * r <= x /\ x < (r + 1) * (r + 1)

\* const volume = Math.min((rms * 6 + peakAmplitude * 2) / 2, 1)
Volume(waveformData) ==
    LET n == Len(waveformData)
        rms == (Sqrt(SumSquares(waveformData, n) \div n) * Unit) \div ByteMid
        peakAmplitude == (PeakAmplitude(waveformData, n) * Unit) \div ByteMid
    IN  Min((rms * 6 + peakAmplitude * 2) \div 2, Unit)

Band_BassTakesItsEnd(i) ==
    IF i <= bassEnd THEN "bass" ELSE IF i < midEnd THEN "mid" ELSE "treble"

\* the branch of the loop body bin i takes:
\* if (i < bassEnd) ... else if (i < midEnd) ... else ...
Band(i) == IF i < bassEnd THEN "bass" ELSE IF i < midEnd THEN "mid" ELSE "treble"

\* bassSum, midSum or trebleSum after the first n bins, in 255ths
RECURSIVE BandSum(_, _, _)
BandSum(frequencyData, band, n) ==
    IF n = 0 THEN 0
    ELSE BandSum(frequencyData, band, n - 1)
            + (IF Band(n - 1) = band THEN frequencyData[n] ELSE 0)

\* analyzeAudio(): the AudioData given to setAudioData (the waveform samples
\* for the drawing are left out)
AnalyzeAudio(f) ==
    [volume |-> Volume(f.waveformData),
     bass   |-> (BandSum(f.frequencyData, "bass", bufferLength) * Unit)
                   \div (ByteMax * bassEnd),
     mid    |-> (BandSum(f.frequencyData, "mid", bufferLength) * Unit)
                   \div (ByteMax * (midEnd - bassEnd)),
     treble |-> (BandSum(f.frequencyData, "treble", bufferLength) * Unit)
                   \div (ByteMax * (bufferLength - midEnd))]

\* analyzeAudio() on each of the frames
Analysed == [f \in Frames |-> AnalyzeAudio(f)]

SmoothAudioData_AddsUnclamped(smoothed, data) ==
    [k \in Features |-> (smoothed[k] * decayFactor) \div 100 + data[k]]

\* smoothAudioData(): smoothed * decay + (raw - smoothed * decay) * factor,
\* then Math.max(0, Math.min(1, .)), for each of the four numbers
SmoothAudioData(smoothed, data) ==
    [k \in Features |->
        LET decayed == (smoothed[k] * decayFactor) \div 100
        IN  Max(0, Min(Unit, decayed + ((data[k] - decayed) * smoothingFactor) \div 100))]

(***************************************************************************)
(* VoiceModal: the effect on [isOpen, audioStream] and the animation loop  *)
(***************************************************************************)
\* isOpen={showVoiceModal}: handleVoiceToggle sets showVoiceModal where it
\* sets voiceThreadIdRef.current
ShowVoiceModal == voiceThreadIdRef # NoThread

\* the dependencies of the effect, as the state is now
Deps == [isOpen |-> ShowVoiceModal, audioStream |-> voiceAudioStream]

ModalInit ==
    /\ effectDeps = [isOpen |-> FALSE, audioStream |-> FALSE]
    /\ animationFrameRef = FALSE
    /\ audioContextRef = FALSE
    /\ openContexts = 0
    /\ audioData = NoAudioData
    /\ loopData = NoAudioData
    /\ smoothedData = NoAudioData
    /\ frame = NoFrame
    /\ frames = 0

\* animate() with the samples of frame f: analyzeAudio(), smoothAudioData()
\* with the audioData the running closure holds, requestAnimationFrame(animate)
Animate(f, closedOver) ==
    /\ audioData' = Analysed[f]
    /\ smoothedData' = SmoothAudioData(smoothedData, closedOver)
    /\ frame' = f
    /\ frames' = IF frames < MaxFrames THEN frames + 1 ELSE frames

\* cleanup(): cancelAnimationFrame, audioContext.close(), the refs set to null
Cleanup ==
    /\ animationFrameRef' = FALSE
    /\ audioContextRef' = FALSE
    /\ openContexts' = IF audioContextRef THEN openContexts - 1 ELSE openContexts

\* React commits a render with changed [isOpen, audioStream]: the cleanup of
\* the effect that ran last, then the effect. With a stream and the modal
\* open that is setupAudioAnalysis(): a new AudioContext, and animate() of
\* this render, which runs its first frame at once.
ModalEffect(f) ==
    /\ effectDeps # Deps
    /\ effectDeps' = Deps
    /\ IF Deps.isOpen /\ Deps.audioStream
          THEN /\ frames < MaxFrames
               /\ openContexts' = IF audioContextRef THEN openContexts ELSE openContexts + 1
               /\ audioContextRef' = TRUE
               /\ animationFrameRef' = TRUE
               /\ loopData' = audioData
               /\ Animate(f, audioData)
          ELSE /\ Cleanup
               /\ UNCHANGED featureVars
    /\ UNCHANGED sessionVars
    /\ UNCHANGED transcriptVars
    /\ UNCHANGED <<speakingState, loggedEvents, delivered, thrown, history, pttVars, chatVars, forwardVars>>

\* the animation frame requested last is due: animate() of the render that
\* started the loop. Without the canvas (the modal not shown) it returns
\* and requests no further frame.
AnimateFrame(f) ==
    /\ animationFrameRef
    /\ IF ShowVoiceModal
          THEN /\ frames < MaxFrames
               /\ Animate(f, loopData)
               /\ UNCHANGED <<loopData, animationFrameRef>>
          ELSE /\ animationFrameRef' = FALSE
               /\ UNCHANGED featureVars
    /\ UNCHANGED <<effectDeps, audioContextRef, openContexts>>
    /\ UNCHANGED sessionVars
    /\ UNCHANGED transcriptVars
    /\ UNCHANGED <<speakingState, loggedEvents, delivered, thrown, history, pttVars, chatVars, forwardVars>>

\* disconnect() runs in a click handler: React renders with the state it set
\* (audioStream null) and runs the effects before the next event. An effect
\* still due from the render before runs first (its loop and its context
\* are then taken down by the cleanup).
DisconnectEffect ==
    /\ effectDeps' = [Deps EXCEPT !.audioStream = FALSE]
    /\ Cleanup
    /\ IF effectDeps # Deps /\ Deps.isOpen /\ Deps.audioStream
          THEN \E f \in Frames : loopData' = audioData /\ Animate(f, audioData)
          ELSE UNCHANGED featureVars

\* the onStatusChange of UnifiedChatInterface: on CONNECTED with a voice
\* thread, the stream of the audio element in the document, if there is
\* one; on DISCONNECTED, null
OnStatusChange(status) ==
    voiceAudioStream' =
        CASE status = "CONNECTED" /\ voiceThreadIdRef # NoThread /\ audioElementRef -> TRUE
          [] status = "DISCONNECTED" -> FALSE
          [] OTHER -> voiceAudioStream

\* updateStatus(status): setSessionStatus(status); options.onStatusChange(status)
UpdateStatus(status) ==
    /\ statusChanges < MaxNotifications
    /\ sessionStatus' = status
    /\ statusChanges' = statusChanges + 1
    /\ OnStatusChange(status)

\* session.turn_detection of an event that is no session.update
NoTurnDetection ==
    [type |-> Undefined, threshold |-> Undefined, prefix_padding_ms |-> 0,
     silence_duration_ms |-> 0, create_response |-> FALSE]

\* turn_detection: null
NullTurnDetection ==
    [type |-> "null", threshold |-> Undefined, prefix_padding_ms |-> 0,
     silence_duration_ms |-> 0, create_response |-> FALSE]

\* the server_vad configuration of updateSession
ServerVad ==
    [type |-> "server_vad", threshold |-> "0.9", prefix_padding_ms |-> 300,
     silence_duration_ms |-> 500, create_response |-> TRUE]

\* an event { type } given to transport.sendEvent
Event(type) == [type |-> type, turn_detection |-> NoTurnDetection]

\* transport.sendEvent(event) on session s: the event is handed to the
\* transport of that session
SendEvents(s, events) == sent' = [sent EXCEPT ![s] = @ \o events]

\* the reentrancy guard of connect(): sessionStatus is the value the callback
\* closed over, sessionRef.current is read live
ConnectGuardReturns == sessionRef # NoSession \/ rendered.sessionStatus # "DISCONNECTED"

\* connect() up to its first await (fetchEphemeralKey), run in slot c
ConnectBegin(c) ==
    /\ conn[c].pc = "idle"
    /\ UpdateStatus("CONNECTING")
    /\ audioElementRef' = TRUE
    /\ conn' = [conn EXCEPT ![c] = [pc |-> "awaitKey", sess |-> NoSession, res |-> "none",
                                    isPTTActive |-> rendered.isPTTActive]]
    /\ UNCHANGED <<sessionRef, sessions, timers, sent>>

\* toggleVoiceMode(true): setIsVoiceMode(true); await connect()
ToggleVoiceModeOn ==
    /\ UNCHANGED transcriptVars
    /\ UNCHANGED dispatchVars
    /\ isVoiceMode' = TRUE
    /\ IF ConnectGuardReturns
          THEN UNCHANGED <<sessionStatus, voiceAudioStream, sessionRef, audioElementRef, sessions, conn,
                           statusChanges, timers, sent>>
          ELSE \E c \in Calls : ConnectBegin(c)
    /\ UNCHANGED rendered

\* disconnect()
DisconnectBody ==
    /\ sessions' = IF sessionRef # NoSession
                      THEN [sessions EXCEPT ![sessionRef] = "closed"]
                      ELSE sessions
    /\ sessionRef' = NoSession
    /\ audioElementRef' = FALSE
    /\ UpdateStatus("DISCONNECTED")
    /\ isPTTUserSpeaking' = FALSE
    /\ UNCHANGED <<timers, sent>>

Disconnect ==
    /\ UNCHANGED transcriptVars
    /\ UNCHANGED eventVars
    /\ UNCHANGED <<isPTTActive, lastCall, pttCalls, unmatchedOn, chatVars, forwardVars>>
    /\ DisconnectBody
    /\ DisconnectEffect
    /\ UNCHANGED <<isVoiceMode, rendered, conn>>

\* toggleVoiceMode(false): setIsVoiceMode(false); disconnect(). It runs
\* synchronously in the click handler that closes the voice session
\* (handleVoiceToggle(false)), and React has re-rendered with what it set
\* before the next event is handled.
ToggleVoiceModeOff ==
    /\ UNCHANGED transcriptVars
    /\ UNCHANGED eventVars
    /\ UNCHANGED <<isPTTActive, lastCall, pttCalls, unmatchedOn, chatVars, forwardVars>>
    /\ isVoiceMode' = FALSE
    /\ DisconnectBody
    /\ DisconnectEffect
    /\ rendered' = [rendered EXCEPT !.sessionStatus = "DISCONNECTED",
                                    !.isPTTUserSpeaking = FALSE]
    /\ UNCHANGED conn

\* fetchEphemeralKey() resolved to null: updateStatus('DISCONNECTED'); return
KeyMissing(c) ==
    /\ UNCHANGED transcriptVars
    /\ UNCHANGED dispatchVars
    /\ conn[c].pc = "awaitKey"
    /\ UpdateStatus("DISCONNECTED")
    /\ conn' = [conn EXCEPT ![c] = IdleCall("noKey")]
    /\ UNCHANGED <<isVoiceMode, rendered, sessionRef, audioElementRef, sessions, timers, sent>>

\* fetchEphemeralKey() resolved to a key and new RealtimeSession(...) threw:
\* the catch block runs
SessionCtorThrows(c) ==
    /\ UNCHANGED transcriptVars
    /\ UNCHANGED dispatchVars
    /\ conn[c].pc = "awaitKey"
    /\ UpdateStatus("DISCONNECTED")
    /\ conn' = [conn EXCEPT ![c] = IdleCall("ctorThrew")]
    /\ UNCHANGED <<isVoiceMode, rendered, sessionRef, audioElementRef, sessions, timers, sent>>

\* fetchEphemeralKey() resolved to a key: the session is constructed and stored
\* in sessionRef, the listeners are registered, session.connect() is awaited
KeyFetched(c) ==
    /\ UNCHANGED transcriptVars
    /\ UNCHANGED dispatchVars
    /\ conn[c].pc = "awaitKey"
    /\ \E s \in SessionIds :
          /\ sessions[s] = "none"
          /\ \A t \in SessionIds : t < s => sessions[t] # "none"
          /\ sessions' = [sessions EXCEPT ![s] = "created"]
          /\ sessionRef' = s
          /\ conn' = [conn EXCEPT ![c] = [pc |-> "awaitConnect", sess |-> s, res |-> "none",
                                          isPTTActive |-> conn[c].isPTTActive]]
    /\ UNCHANGED <<sessionStatus, voiceAudioStream, isVoiceMode, rendered, audioElementRef, statusChanges,
                   timers, sent>>

TurnDetection_AlwaysServerVad(usePTT) == ServerVad

\* const turnDetection = usePTT ? null : { type: 'server_vad', ... }
TurnDetection(usePTT) == IF usePTT THEN NullTurnDetection ELSE ServerVad

\* updateSession(usePTT): session.update on the session sessionRef holds now
UpdateSession(usePTT) ==
    IF sessionRef # NoSession
       THEN SendEvents(sessionRef, <<[type |-> "session.update",
                                      turn_detection |-> TurnDetection(usePTT)]>>)
       ELSE UNCHANGED sent

\* session.connect() resolved: updateStatus('CONNECTED'), updateSession(isPTTActive),
\* setTimeout(sendInitialGreeting, 500)
HandshakeOk(c) ==
    /\ UNCHANGED transcriptVars
    /\ UNCHANGED dispatchVars
    /\ conn[c].pc = "awaitConnect"
    /\ UpdateStatus("CONNECTED")
    /\ sessions' = [sessions EXCEPT ![conn[c].sess] =
                       IF @ = "closed" THEN "closed" ELSE "connected"]
    /\ UpdateSession(conn[c].isPTTActive)
    /\ timers' = timers \cup {[sess |-> conn[c].sess,
                                onOpen |-> sessions[conn[c].sess] # "closed"]}
    /\ conn' = [conn EXCEPT ![c] = IdleCall("ok")]
    /\ UNCHANGED <<isVoiceMode, rendered, sessionRef, audioElementRef>>

(***************************************************************************)
(* Texts. A text is a sequence of chunks; concatenation is \o.             *)
(***************************************************************************)
ItemIds == {"m1", "m2"}
Roles == {"user", "assistant"}
\* the conversation of the run: m1 is a user item, m2 an assistant item
RoleOf == [x \in ItemIds |-> IF x = "m1" THEN "user" ELSE "assistant"]

Empty == <<>>
Newline == <<"LF">>
\* '[Transcribing...]'
PlaceholderText == <<"[Transcribing...]">>
\* '[inaudible]'
InaudibleText == <<"[inaudible]">>
\* the delta payloads and the final transcripts the transport delivers
Deltas == {<<"a">>, <<"b">>}
Transcripts == {Empty, Newline, <<"a", "b">>}

\* JavaScript truthiness of a string
Truthy(text) == text # Empty

(***************************************************************************)
(* TranscriptContext: the in-session transcript                            *)
(***************************************************************************)
\* guardrailResult?: GuardrailResultType of an item that has none
NoGuardrailResult ==
    [status |-> Undefined, category |-> Undefined, rationale |-> Undefined,
     testText |-> Undefined]

HasMessage(items, itemId) == \E i \in 1..Len(items) : items[i].itemId = itemId

\* addTranscriptMessage(itemId, role, text)
AddTranscriptMessage(items, itemId, role, text) ==
    IF HasMessage(items, itemId)
       THEN items
       ELSE Append(items, [itemId |-> itemId, role |-> role, title |-> text,
                           status |-> "IN_PROGRESS",
                           guardrailResult |-> NoGuardrailResult])

\* updateTranscriptMessage(itemId, text, isDelta): a delta replaces the
\* placeholder and is appended to any other text; otherwise text replaces
UpdateTranscriptMessage(items, itemId, text, isDelta) ==
    [i \in 1..Len(items) |->
        IF items[i].itemId = itemId
           THEN [items[i] EXCEPT !.title =
                    IF isDelta
                       THEN (IF @ = PlaceholderText THEN text ELSE @ \o text)
                       ELSE text]
           ELSE items[i]]

\* updateTranscriptItem(itemId, { status })
UpdateTranscriptItem(items, itemId, status) ==
    [i \in 1..Len(items) |->
        IF items[i].itemId = itemId THEN [items[i] EXCEPT !.status = status]
                                    ELSE items[i]]

\* updateTranscriptItem(itemId, { guardrailResult })
UpdateTranscriptItemGuardrail(items, itemId, guardrailResult) ==
    [i \in 1..Len(items) |->
        IF items[i].itemId = itemId
           THEN [items[i] EXCEPT !.guardrailResult = guardrailResult]
           ELSE items[i]]

(***************************************************************************)
(* useHandleSessionHistory                                                 *)
(***************************************************************************)
\* handleHistoryAdded(item), item = { type: 'message', itemId, role, content }
\* with extractMessageText(content) = text
HandleHistoryAdded(items, itemId, role, text) ==
    AddTranscriptMessage(items, itemId, role,
        IF role = "user" /\ ~Truthy(text) THEN PlaceholderText ELSE text)

\* handleTranscriptionDelta(event)
HandleTranscriptionDelta(items, itemId, delta) ==
    IF itemId = Undefined THEN items
    ELSE UpdateTranscriptMessage(items, itemId, delta, TRUE)

\* the text handleTranscriptionCompleted stores for a final transcript
FinalTranscript(transcript) ==
    IF ~Truthy(transcript) \/ transcript = Newline THEN InaudibleText ELSE transcript

HandleTranscriptionCompleted_KeepsStatus(items, itemId, transcript) ==
    UpdateTranscriptMessage(items, itemId, FinalTranscript(transcript), FALSE)

\* handleTranscriptionCompleted(event)
HandleTranscriptionCompleted(items, itemId, transcript) ==
    IF itemId = Undefined THEN items
    ELSE
    UpdateTranscriptItem(
        UpdateTranscriptMessage(items, itemId, FinalTranscript(transcript), FALSE),
        itemId, "DONE")

(***************************************************************************)
(* UnifiedChatInterface: the transcription callbacks and their requests    *)
(***************************************************************************)
\* a fetch('/api/chat/messages', ...) dispatched now by a registered callback
NewRequest(kind, externalId, content, role, src) ==
    [src |-> src, kind |-> kind, externalId |-> externalId, content |-> content,
     role |-> role, threadId |-> voiceThreadIdRef, cbThread |-> cb.currentThreadId,
     phase |-> "sent"]

\* loadMessages(threadId): GET /api/chat/messages?threadId=
LoadRequest(threadId) ==
    [src |-> "loadMessages", kind |-> "GET", externalId |-> "", content |-> Empty, role |-> "",
     threadId |-> threadId, cbThread |-> NoThread, phase |-> "sent"]

\* messages.find(m => m.externalId === itemId) over the closed-over messages
FindMessage(rows, itemId) ==
    LET hits == {i \in 1..Len(rows) : rows[i].externalId = itemId}
    IN  IF hits = {} THEN {} ELSE {rows[CHOOSE i \in hits : \A j \in hits : i <= j]}

\* onTranscriptionStart(itemId, role), called for event source src: the
\* requests it dispatches
OnTranscriptionStart(itemId, role, src) ==
    IF voiceThreadIdRef # NoThread
       THEN {NewRequest("POST", itemId, PlaceholderText, role, src)}
       ELSE {}

\* onTranscriptionDelta(itemId, delta, role): the requests it dispatches
OnTranscriptionDelta(itemId, delta) ==
    IF voiceThreadIdRef # NoThread
       THEN {NewRequest("PATCH", itemId,
                        IF m.content = PlaceholderText THEN delta ELSE m.content \o delta,
                        "", "delta") : m \in FindMessage(cb.messages, itemId)}
       ELSE {}

\* onTranscriptionComplete(itemId, text, role): the requests it dispatches
OnTranscriptionComplete(itemId, text) ==
    IF voiceThreadIdRef # NoThread
       THEN {NewRequest("PATCH", itemId, text, "", "completed")}
       ELSE {}

\* requests in flight are told apart by what they carry and by the kind of
\* event that caused them
Dispatch(rs) == reqs' = reqs \cup rs

RECURSIVE SumLen(_, _)
SumLen(h, S) ==
    IF S = {} THEN 0
    ELSE LET x == CHOOSE y \in S : TRUE IN Len(h[x]) + SumLen(h, S \ {x})

EventCount == SumLen(hist, ItemIds) + Len(delivered)

\* the transport delivers events while the voice session is on
CanDeliver ==
    /\ voiceThreadIdRef # NoThread
    /\ EventCount < MaxEvents
    /\ Cardinality(reqs) < MaxInFlight

Record(itemId, ev) == hist' = [hist EXCEPT ![itemId] = Append(@, ev)]

\* the run that sees only this item's events: its transcript becomes items
AloneItems(itemId, items) == solo' = [solo EXCEPT ![itemId].items = items]

\* the run that sees only this item's requests: its Message table becomes rows
AloneRows(itemId, rows) == solo' = [solo EXCEPT ![itemId].db = rows]

HasRow(rows, itemId) == \E i \in 1..Len(rows) : rows[i].externalId = itemId

TranscriptInit ==
    /\ transcriptItems = <<>>
    /\ voiceThreadIdRef = NoThread
    /\ currentThreadId = NoThread
    /\ messages = <<>>
    /\ cb = [messages |-> <<>>, currentThreadId |-> NoThread]
    /\ db = <<>>
    /\ reqs = {}
    /\ serverLog = {}
    /\ consoleErrors = {}
    /\ hist = [x \in ItemIds |-> <<>>]
    /\ solo = [x \in ItemIds |-> [items |-> <<>>, db |-> <<>>]]
    /\ speakingState = "idle"
    /\ loggedEvents = <<>>
    /\ delivered = <<>>
    /\ thrown = {}
    /\ history = <<>>

(***************************************************************************)
(* useUnifiedSession: handleTransportEvent and handleHistoryAdded          *)
(***************************************************************************)
\* session event history_added
HistoryAdded(itemId, role) ==
    /\ CanDeliver
    /\ transcriptItems' = HandleHistoryAdded(transcriptItems, itemId, role, Empty)
    /\ AloneItems(itemId, HandleHistoryAdded(solo[itemId].items, itemId, role, Empty))
    /\ Dispatch(OnTranscriptionStart(itemId, role, "history_added"))
    /\ Record(itemId, [type |-> "created", text |-> Empty])
    /\ UNCHANGED <<voiceThreadIdRef, currentThreadId, messages, cb, db, serverLog, consoleErrors>>
    /\ UNCHANGED sessionVars
    /\ UNCHANGED dispatchVars

\* transport event conversation.item.created, item.type = 'message'
ConversationItemCreated(itemId, role) ==
    /\ CanDeliver
    /\ Dispatch(OnTranscriptionStart(itemId, role, "item.created"))
    /\ Record(itemId, [type |-> "created", text |-> Empty])
    /\ UNCHANGED <<transcriptItems, voiceThreadIdRef, currentThreadId, messages, cb,
                   db, serverLog, consoleErrors, solo>>
    /\ UNCHANGED sessionVars
    /\ UNCHANGED dispatchVars

\* transport event response.audio_transcript.delta
TranscriptDelta(itemId, delta) ==
    /\ CanDeliver
    /\ transcriptItems' = HandleTranscriptionDelta(transcriptItems, itemId, delta)
    /\ AloneItems(itemId, HandleTranscriptionDelta(solo[itemId].items, itemId, delta))
    /\ Dispatch(IF Truthy(delta) THEN OnTranscriptionDelta(itemId, delta) ELSE {})
    /\ Record(itemId, [type |-> "delta", text |-> delta])
    /\ UNCHANGED <<voiceThreadIdRef, currentThreadId, messages, cb, db, serverLog, consoleErrors>>
    /\ UNCHANGED sessionVars
    /\ UNCHANGED dispatchVars

\* transport events conversation.item.input_audio_transcription.completed and
\* response.audio_transcript.done
TranscriptCompleted(itemId, transcript) ==
    /\ CanDeliver
    /\ transcriptItems' = HandleTranscriptionCompleted(transcriptItems, itemId, transcript)
    /\ AloneItems(itemId, HandleTranscriptionCompleted(solo[itemId].items, itemId, transcript))
    /\ Dispatch(IF Truthy(transcript) THEN OnTranscriptionComplete(itemId, transcript) ELSE {})
    /\ Record(itemId, [type |-> "completed", text |-> transcript])
    /\ UNCHANGED <<voiceThreadIdRef, currentThreadId, messages, cb, db, serverLog, consoleErrors>>
    /\ UNCHANGED sessionVars
    /\ UNCHANGED dispatchVars

\* the event types handleTransportEvent has a case for
RecognizedTypes ==
    {"input_audio_buffer.speech_started", "input_audio_buffer.speech_stopped",
     "response.created", "response.done",
     "conversation.item.input_audio_transcription.completed",
     "response.audio_transcript.done", "response.audio_transcript.delta",
     "conversation.item.created"}

\* event types the transport delivers that handleTransportEvent has no case for
OtherTypes == {"session.updated", "conversation.item.input_audio_transcription.delta"}

SwitchCase_DefaultIsResponseDone(eventType) ==
    IF eventType \in RecognizedTypes THEN eventType ELSE "response.done"

\* switch (eventType): the case that runs
SwitchCase(eventType) ==
    IF eventType \in RecognizedTypes THEN eventType ELSE "default"

\* logServerEvent(event) of EventContext: the event is recorded
LogServerEvent(log, eventType) == Append(log, eventType)

\* the events of handleTransportEvent that carry no transcript
SignalTypes ==
    {"input_audio_buffer.speech_started", "input_audio_buffer.speech_stopped",
     "response.created", "response.done"} \cup OtherTypes

\* handleTransportEvent(event) for a speech, response or unrecognized event:
\* options.onSpeechStarted / onSpeechStopped (setSpeakingState), or
\* logServerEvent(event) in the default case
SignalEvent(eventType) ==
    /\ CanDeliver
    /\ delivered' = Append(delivered, eventType)
    /\ speakingState' =
          CASE SwitchCase(eventType) = "input_audio_buffer.speech_started" -> "user"
            [] SwitchCase(eventType) = "response.created" -> "assistant"
            [] SwitchCase(eventType) \in {"input_audio_buffer.speech_stopped",
                                          "response.done"} -> "idle"
            [] OTHER -> speakingState
    /\ loggedEvents' = IF SwitchCase(eventType) = "default"
                          THEN LogServerEvent(loggedEvents, eventType)
                          ELSE loggedEvents
    /\ UNCHANGED thrown
    /\ UNCHANGED quietVars
    /\ UNCHANGED transcriptVars
    /\ UNCHANGED sessionVars

(***************************************************************************)
(* /api/chat/messages: POST, PATCH, GET over the Message table             *)
(***************************************************************************)
MessageUpdate_AllRows(rows, externalId, content) ==
    [i \in 1..Len(rows) |-> [rows[i] EXCEPT !.content = content]]

\* prisma.message.update({ where: { externalId }, data: { content } })
MessageUpdate(rows, externalId, content) ==
    [i \in 1..Len(rows) |->
        IF rows[i].externalId = externalId THEN [rows[i] EXCEPT !.content = content]
                                           ELSE rows[i]]

CreateViolatesUnique_Never(rows, externalId) == FALSE

\* externalId is a unique key of Message (findUnique / update select by it):
\* prisma.message.create throws when a row with that externalId exists
CreateViolatesUnique(rows, externalId) == HasRow(rows, externalId)

\* prisma.message.create({ data: { threadId, role, content, externalId } })
MessageCreate(rows, r) ==
    Append(rows, [externalId |-> r.externalId, content |-> r.content, role |-> r.role,
                  threadId |-> r.threadId])

\* the callback that awaited the request resumes: it reloads the messages when
\* the thread it closed over is the voice thread
Continuation(r) ==
    IF r.cbThread = voiceThreadIdRef
       THEN {LoadRequest(voiceThreadIdRef)}
       ELSE {}

\* saveMessageToThread / updateMessageInThread
WriteFunction(r) ==
    IF r.kind = "POST" THEN "saveMessageToThread" ELSE "updateMessageInThread"

WriteOutcome_Unhandled(status) ==
    [logged |-> FALSE, rejected |-> status # 200]

\* try { ...; if (!response.ok) { console.error(...); throw new Error(...) } ... }
\* catch (error) { console.error(...) }: a failure is reported and the
\* promise the callback awaits is fulfilled
WriteOutcome(status) ==
    [logged |-> status # 200, rejected |-> FALSE]

\* the response of request r is delivered to the client
Respond(r, status) ==
    /\ reqs' = (reqs \ {r}) \cup
                  (IF WriteOutcome(status).rejected THEN {} ELSE Continuation(r))
    /\ consoleErrors' =
          IF WriteOutcome(status).logged
             THEN consoleErrors \cup {[fn |-> WriteFunction(r), externalId |-> r.externalId,
                                       status |-> status,
                                       seen |-> Len(hist[r.externalId])]}
             ELSE consoleErrors
    /\ thrown' = IF WriteOutcome(status).rejected
                    THEN thrown \cup {r.src}
                    ELSE thrown
    /\ serverLog' = IF status = 200
                       THEN serverLog
                       ELSE serverLog \cup {[kind |-> r.kind, externalId |-> r.externalId,
                                             status |-> status]}

\* POST up to the answer of findUnique({ where: { externalId } })
PostFind(r) ==
    /\ r \in reqs /\ r.kind = "POST" /\ r.phase = "sent"
    /\ IF r.threadId = NoThread \/ ~Truthy(r.content)
          THEN Respond(r, 400)
          ELSE /\ reqs' = (reqs \ {r}) \cup
                     {[r EXCEPT !.phase = IF HasRow(db, r.externalId) THEN "update"
                                                                     ELSE "create"]}
               /\ UNCHANGED <<serverLog, consoleErrors, thrown>>
    /\ UNCHANGED <<transcriptItems, voiceThreadIdRef, currentThreadId, messages, cb,
                   db, hist, solo>>
    /\ UNCHANGED sessionVars
    /\ UNCHANGED <<speakingState, loggedEvents, delivered>>
    /\ UNCHANGED quietVars

\* POST, a message with this externalId exists: update it
PostUpdate(r) ==
    /\ r \in reqs /\ r.kind = "POST" /\ r.phase = "update"
    /\ db' = MessageUpdate(db, r.externalId, r.content)
    /\ AloneRows(r.externalId, MessageUpdate(solo[r.externalId].db, r.externalId, r.content))
    /\ Respond(r, 200)
    /\ UNCHANGED <<transcriptItems, voiceThreadIdRef, currentThreadId, messages, cb,
                   hist>>
    /\ UNCHANGED sessionVars
    /\ UNCHANGED <<speakingState, loggedEvents, delivered>>
    /\ UNCHANGED quietVars

\* POST, no message with this externalId was found: create it
PostCreate(r) ==
    /\ r \in reqs /\ r.kind = "POST" /\ r.phase = "create"
    /\ IF CreateViolatesUnique(db, r.externalId)
          THEN /\ Respond(r, 500)
               /\ UNCHANGED db
          ELSE /\ db' = MessageCreate(db, r)
               /\ Respond(r, 200)
    /\ AloneRows(r.externalId,
                 IF CreateViolatesUnique(solo[r.externalId].db, r.externalId)
                    THEN solo[r.externalId].db
                    ELSE MessageCreate(solo[r.externalId].db, r))
    /\ UNCHANGED <<transcriptItems, voiceThreadIdRef, currentThreadId, messages, cb,
                   hist>>
    /\ UNCHANGED sessionVars
    /\ UNCHANGED <<speakingState, loggedEvents, delivered>>
    /\ UNCHANGED quietVars

\* PATCH
Patch(r) ==
    /\ r \in reqs /\ r.kind = "PATCH"
    /\ IF ~Truthy(r.content)
          THEN /\ Respond(r, 400)
               /\ UNCHANGED db
          ELSE IF HasRow(db, r.externalId)
                  THEN /\ db' = MessageUpdate(db, r.externalId, r.content)
                       /\ Respond(r, 200)
                  ELSE /\ Respond(r, 500)
                       /\ UNCHANGED db
    /\ AloneRows(r.externalId,
                 IF Truthy(r.content)
                    THEN MessageUpdate(solo[r.externalId].db, r.externalId, r.content)
                    ELSE solo[r.externalId].db)
    /\ UNCHANGED <<transcriptItems, voiceThreadIdRef, currentThreadId, messages, cb,
                   hist>>
    /\ UNCHANGED sessionVars
    /\ UNCHANGED <<speakingState, loggedEvents, delivered>>
    /\ UNCHANGED quietVars

\* GET and loadMessages's setMessages(data.messages)
Get(r) ==
    /\ r \in reqs /\ r.kind = "GET"
    /\ messages' = SelectSeq(db, LAMBDA row : row.threadId = r.threadId)
    /\ reqs' = reqs \ {r}
    /\ UNCHANGED <<transcriptItems, voiceThreadIdRef, currentThreadId, cb,
                   db, serverLog, consoleErrors, hist, solo>>
    /\ UNCHANGED sessionVars
    /\ UNCHANGED dispatchVars

(***************************************************************************)
(* UnifiedChatInterface: handleVoiceToggle                                 *)
(***************************************************************************)
\* handleVoiceToggle(true), the voice session connecting: a new voice thread
\* is created and selected, the session's listeners are the callbacks of the
\* render the toggle was called from, the thread's messages are loaded.
\* A page runs one voice session: closing the voice modal reloads the page.
HandleVoiceToggleOn ==
    /\ voiceThreadIdRef = NoThread
    /\ currentThreadId # VoiceThread
    /\ voiceThreadIdRef' = VoiceThread
    /\ currentThreadId' = VoiceThread
    /\ cb' = [messages |-> messages, currentThreadId |-> currentThreadId]
    /\ reqs' = reqs \cup {LoadRequest(VoiceThread)}
    /\ UNCHANGED <<transcriptItems, messages, db, serverLog, consoleErrors, hist, solo>>
    /\ UNCHANGED sessionVars
    /\ UNCHANGED dispatchVars

\* handleVoiceToggle(false)
HandleVoiceToggleOff ==
    /\ voiceThreadIdRef # NoThread
    /\ voiceThreadIdRef' = NoThread
    /\ UNCHANGED <<transcriptItems, currentThreadId, messages, cb, db, reqs,
                   serverLog, consoleErrors, hist, solo>>
    /\ UNCHANGED sessionVars
    /\ UNCHANGED dispatchVars

(***************************************************************************)
(* useHandleSessionHistory: handleGuardrailTripped                         *)
(***************************************************************************)
\* the most guardrail_tripped events of a run
MaxTrips == 2

\* the conversation of the guardrail runs: a user message and two assistant
\* messages, added to the history in any order
GuardItems == {"A", "B", "C"}
GuardRoleOf == [x \in GuardItems |-> IF x = "A" THEN "user" ELSE "assistant"]

\* extractModeration(guardrail.result.output.outputInfo): nothing, a full
\* moderation, or one without category, rationale and testText
Moderations ==
    {[present |-> FALSE, moderationCategory |-> Undefined,
      moderationRationale |-> Undefined, testText |-> Undefined],
     [present |-> TRUE, moderationCategory |-> "OFFENSIVE",
      moderationRationale |-> "rationale", testText |-> "text"],
     [present |-> TRUE, moderationCategory |-> Undefined,
      moderationRationale |-> Undefined, testText |-> Undefined]}

\* the indices of the assistant messages of a history
AssistantsOf(h) == {i \in 1..Len(h) : h[i].role = "assistant"}

\* extractLastAssistantMessage(history): the assistant message added last, as
\* a set of at most one message
ExtractLastAssistantMessage(h) ==
    {h[i] : i \in {j \in AssistantsOf(h) : \A k \in AssistantsOf(h) : k <= j}}

\* the guardrailResult handleGuardrailTripped builds from a moderation
GuardrailResultOf(moderation) ==
    [status |-> "DONE",
     category |-> IF moderation.moderationCategory = Undefined
                     THEN "NONE" ELSE moderation.moderationCategory,
     rationale |-> IF moderation.moderationRationale = Undefined
                      THEN "" ELSE moderation.moderationRationale,
     testText |-> moderation.testText]

HandleGuardrailTripped_FirstAssistant(items, h, moderation) ==
    IF AssistantsOf(h) # {} /\ moderation.present
       THEN UpdateTranscriptItemGuardrail(items,
               h[CHOOSE j \in AssistantsOf(h) : \A k \in AssistantsOf(h) : j <= k].itemId,
               GuardrailResultOf(moderation))
       ELSE items

\* handleGuardrailTripped(details, _agent, guardrail), with
\* h = details.context.history: the transcript it leaves
HandleGuardrailTripped(items, h, moderation) ==
    IF ExtractLastAssistantMessage(h) # {} /\ moderation.present
       THEN UpdateTranscriptItemGuardrail(items,
               (CHOOSE m \in ExtractLastAssistantMessage(h) : TRUE).itemId,
               GuardrailResultOf(moderation))
       ELSE items

\* the session adds message x to its history and emits history_added:
\* handleHistoryAdded(item) of useUnifiedSession
HistoryGrows(x, text) ==
    /\ \A i \in 1..Len(history) : history[i].itemId # x
    /\ history' = Append(history, [itemId |-> x, role |-> GuardRoleOf[x]])
    /\ transcriptItems' = HandleHistoryAdded(transcriptItems, x, GuardRoleOf[x], text)
    /\ Dispatch(OnTranscriptionStart(x, GuardRoleOf[x], "history_added"))
    /\ UNCHANGED <<voiceThreadIdRef, currentThreadId, messages, cb, db, serverLog,
                   consoleErrors, hist, solo>>
    /\ UNCHANGED <<speakingState, loggedEvents, delivered, thrown>>
    /\ UNCHANGED <<pttVars, modalVars, chatVars, forwardVars>>
    /\ UNCHANGED sessionVars

\* session event guardrail_tripped: handleGuardrailTripped
GuardrailTripped(moderation) ==
    /\ Len(loggedEvents) < MaxTrips
    /\ loggedEvents' = LogServerEvent(loggedEvents, "guardrail_tripped")
    /\ transcriptItems' = HandleGuardrailTripped(transcriptItems, history, moderation)
    /\ delivered' = Append(delivered, IF moderation.present
                                         THEN "guardrail_tripped, moderation"
                                         ELSE "guardrail_tripped, no moderation")
    /\ UNCHANGED <<voiceThreadIdRef, currentThreadId, messages, cb, db, reqs, serverLog,
                   consoleErrors, hist, solo>>
    /\ UNCHANGED <<speakingState, thrown, history>>
    /\ UNCHANGED <<pttVars, modalVars, chatVars, forwardVars>>
    /\ UNCHANGED sessionVars

(***************************************************************************)
(* useUnifiedSession: events that lack a field                             *)
(***************************************************************************)
\* transport events that lack a field: a missing item_id, item, id or role is
\* Undefined; hasItem tells whether event.item is there
IncompleteEvents ==
    {[tag |-> "delta without item_id", type |-> "response.audio_transcript.delta",
      item_id |-> Undefined, text |-> <<"a">>, hasItem |-> FALSE, role |-> Undefined],
     [tag |-> "done without item_id", type |-> "response.audio_transcript.done",
      item_id |-> Undefined, text |-> <<"a", "b">>, hasItem |-> FALSE, role |-> Undefined],
     [tag |-> "completed without item_id and transcript",
      type |-> "conversation.item.input_audio_transcription.completed",
      item_id |-> Undefined, text |-> Empty, hasItem |-> FALSE, role |-> Undefined],
     [tag |-> "created without item", type |-> "conversation.item.created",
      item_id |-> Undefined, text |-> Empty, hasItem |-> FALSE, role |-> Undefined],
     [tag |-> "created without id", type |-> "conversation.item.created",
      item_id |-> Undefined, text |-> Empty, hasItem |-> TRUE, role |-> "assistant"],
     [tag |-> "created without role", type |-> "conversation.item.created",
      item_id |-> "m2", text |-> Empty, hasItem |-> TRUE, role |-> Undefined]}

\* handleTransportEvent(event) for a transcript event that lacks a field
IncompleteEvent(ev) ==
    /\ CanDeliver
    /\ delivered' = Append(delivered, ev.tag)
    /\ transcriptItems' =
          CASE SwitchCase(ev.type) = "response.audio_transcript.delta" ->
                  HandleTranscriptionDelta(transcriptItems, ev.item_id, ev.text)
            [] SwitchCase(ev.type) \in
                  {"conversation.item.input_audio_transcription.completed",
                   "response.audio_transcript.done"} ->
                  HandleTranscriptionCompleted(transcriptItems, ev.item_id, ev.text)
            [] OTHER -> transcriptItems
    /\ Dispatch(
          CASE SwitchCase(ev.type) = "response.audio_transcript.delta" ->
                  IF ev.item_id # Undefined /\ Truthy(ev.text)
                     THEN OnTranscriptionDelta(ev.item_id, ev.text) ELSE {}
            [] SwitchCase(ev.type) \in
                  {"conversation.item.input_audio_transcription.completed",
                   "response.audio_transcript.done"} ->
                  IF ev.item_id # Undefined /\ Truthy(ev.text)
                     THEN OnTranscriptionComplete(ev.item_id, ev.text) ELSE {}
            [] SwitchCase(ev.type) = "conversation.item.created" ->
                  IF ev.hasItem /\ ev.item_id # Undefined /\ ev.role \in Roles
                     THEN OnTranscriptionStart(ev.item_id, ev.role, "item.created")
                     ELSE {}
            [] OTHER -> {})
    /\ UNCHANGED <<speakingState, loggedEvents, thrown>>
    /\ UNCHANGED quietVars
    /\ UNCHANGED <<voiceThreadIdRef, currentThreadId, messages, cb, db, serverLog, consoleErrors,
                   hist, solo>>
    /\ UNCHANGED sessionVars

\* the item.context.history of the agent_handoff events: its messages' names
Histories ==
    {<<>>,
     <<[name |-> "transfer_to_chatAgent"], [name |-> Undefined]>>,
     <<[name |-> "lookup"]>>,
     <<[name |-> "lookup"], [name |-> "transfer_to_chatAgent"]>>}

HandoffTag(h) ==
    IF Len(h) = 0 THEN "agent_handoff, empty history"
    ELSE IF h[Len(h)].name = Undefined THEN "agent_handoff, last message without name"
    ELSE IF h[Len(h)].name = "lookup" THEN "agent_handoff, last message not a transfer"
    ELSE "agent_handoff"

\* lastMessage.name.split("transfer_to_")[1]
SplitTransferTo(name) ==
    IF name = "transfer_to_chatAgent" THEN "chatAgent" ELSE Undefined

\* handleAgentHandoff(item): history[history.length - 1] of an empty history
\* is undefined, and reading .name of undefined, or .split of an undefined
\* name, throws a TypeError
HandleAgentHandoff(h) ==
    IF Len(h) = 0 THEN [threw |-> TRUE, agentName |-> Undefined]
    ELSE IF h[Len(h)].name = Undefined
            THEN [threw |-> TRUE, agentName |-> Undefined]
    ELSE [threw |-> FALSE, agentName |-> SplitTransferTo(h[Len(h)].name)]

\* session event agent_handoff: the listener is handleAgentHandoff, and
\* options.onAgentHandoff only writes to the console
AgentHandoff(h) ==
    /\ CanDeliver
    /\ delivered' = Append(delivered, HandoffTag(h))
    /\ thrown' = IF HandleAgentHandoff(h).threw
                    THEN thrown \cup {"handleAgentHandoff"}
                    ELSE thrown
    /\ UNCHANGED <<speakingState, loggedEvents>>
    /\ UNCHANGED quietVars
    /\ UNCHANGED transcriptVars
    /\ UNCHANGED sessionVars

TranscriptNext ==
    \/ HandleVoiceToggleOn
    \/ HandleVoiceToggleOff
    \/ \E x \in ItemIds : HistoryAdded(x, RoleOf[x])
    \/ \E x \in ItemIds : ConversationItemCreated(x, RoleOf[x])
    \/ \E x \in ItemIds, d \in Deltas : RoleOf[x] = "assistant" /\ TranscriptDelta(x, d)
    \/ \E x \in ItemIds, t \in Transcripts : TranscriptCompleted(x, t)
    \/ \E r \in reqs : PostFind(r)
    \/ \E r \in reqs : PostUpdate(r)
    \/ \E r \in reqs : PostCreate(r)
    \/ \E r \in reqs : Patch(r)
    \/ \E r \in reqs : Get(r)


(***************************************************************************)
(* useUnifiedSession: the greeting, and the steps of the session lifecycle *)
(***************************************************************************)
\* the id uuidv4() gives the n-th greeting item
GreetingId(n) == <<"greeting-1", "greeting-2", "greeting-3", "greeting-4">>[n]

GreetingEvents == <<Event("conversation.item.create"), Event("response.create")>>

\* sendInitialGreeting()
SendInitialGreeting ==
    IF sessionRef = NoSession
       THEN UNCHANGED <<transcriptItems, sent>>
       ELSE /\ transcriptItems' = AddTranscriptMessage(transcriptItems,
                                      GreetingId(Len(transcriptItems) + 1), "user", <<"hi">>)
            /\ SendEvents(sessionRef, GreetingEvents)

\* the 500 ms timeout t, set by the connect() that connected session t.sess,
\* expires
GreetingTimerFires(t) ==
    /\ t \in timers
    /\ timers' = timers \ {t}
    /\ SendInitialGreeting
    /\ UNCHANGED <<voiceThreadIdRef, currentThreadId, messages, cb, db, reqs, serverLog, consoleErrors,
                   hist, solo>>
    /\ UNCHANGED <<sessionStatus, voiceAudioStream, isVoiceMode, rendered, sessionRef, audioElementRef,
                   sessions, conn, statusChanges>>
    /\ UNCHANGED dispatchVars

\* session.connect() rejected: the catch block runs
HandshakeFails(c) ==
    /\ UNCHANGED transcriptVars
    /\ UNCHANGED dispatchVars
    /\ conn[c].pc = "awaitConnect"
    /\ UpdateStatus("DISCONNECTED")
    /\ conn' = [conn EXCEPT ![c] = IdleCall("handshakeRejected")]
    /\ UNCHANGED <<isVoiceMode, rendered, sessionRef, audioElementRef, sessions, timers, sent>>

SessionNext ==
    \/ Render
    \/ ToggleVoiceModeOn
    \/ ToggleVoiceModeOff
    \/ Disconnect
    \/ \E c \in Calls : KeyMissing(c)
    \/ \E c \in Calls : SessionCtorThrows(c)
    \/ \E c \in Calls : KeyFetched(c)
    \/ \E c \in Calls : HandshakeOk(c)
    \/ \E c \in Calls : HandshakeFails(c)
    \/ \E t \in timers : GreetingTimerFires(t)

(***************************************************************************)
(* useUnifiedSession: push-to-talk                                         *)
(***************************************************************************)
\* the most calls of updateTurnDetection, handlePTTStart and handlePTTEnd
MaxPTTCalls == 3

\* isConnected, as the render gave it to UnifiedMessageInput
IsConnected == rendered.sessionStatus = "CONNECTED"

\* a call of push-to-talk function fn is made: UnifiedMessageInput calls
\* each of them under `if (voiceSession.isConnected)`
Called(fn) ==
    /\ IsConnected
    /\ pttCalls < MaxPTTCalls
    /\ pttCalls' = pttCalls + 1
    /\ lastCall' = fn

\* updateTurnDetection(usePTT): setIsPTTActive(usePTT); updateSession(usePTT).
\* The functions of this section are called from DOM event handlers, and
\* React has re-rendered with what they set before the next event is handled.
UpdateTurnDetection(usePTT) ==
    /\ Called(IF usePTT THEN "updateTurnDetection(true)" ELSE "updateTurnDetection(false)")
    /\ isPTTActive' = usePTT
    /\ rendered' = [rendered EXCEPT !.isPTTActive = usePTT]
    /\ UpdateSession(usePTT)
    /\ UNCHANGED unmatchedOn
    /\ UNCHANGED <<isPTTUserSpeaking, sessionStatus, voiceAudioStream, isVoiceMode, sessionRef,
                   audioElementRef, sessions, conn, statusChanges, timers>>
    /\ UNCHANGED transcriptVars
    /\ UNCHANGED eventVars
    /\ UNCHANGED <<modalVars, chatVars, forwardVars>>

\* handlePTTStart(): isPTTActive is the value the callback closed over
\* (deps [isPTTActive]), sessionRef.current is read live
HandlePTTStart ==
    /\ Called("handlePTTStart")
    /\ unmatchedOn' = IF sessionRef # NoSession /\ isPTTActive THEN sessionRef
                                                               ELSE unmatchedOn
    /\ IF sessionRef = NoSession \/ ~rendered.isPTTActive
          THEN UNCHANGED <<isPTTUserSpeaking, rendered, sent>>
          ELSE /\ isPTTUserSpeaking' = TRUE
               /\ rendered' = [rendered EXCEPT !.isPTTUserSpeaking = TRUE]
               /\ SendEvents(sessionRef, <<Event("input_audio_buffer.clear")>>)
    /\ UNCHANGED <<isPTTActive, sessionStatus, voiceAudioStream, isVoiceMode, sessionRef,
                   audioElementRef, sessions, conn, statusChanges, timers>>
    /\ UNCHANGED transcriptVars
    /\ UNCHANGED eventVars
    /\ UNCHANGED <<modalVars, chatVars, forwardVars>>

HandlePTTEnd_Unguarded ==
    /\ Called("handlePTTEnd")
    /\ unmatchedOn' = NoSession
    /\ IF sessionRef = NoSession \/ ~rendered.isPTTActive
          THEN UNCHANGED <<isPTTUserSpeaking, rendered, sent>>
          ELSE /\ isPTTUserSpeaking' = FALSE
               /\ rendered' = [rendered EXCEPT !.isPTTUserSpeaking = FALSE]
               /\ SendEvents(sessionRef, <<Event("input_audio_buffer.commit"),
                                           Event("response.create")>>)
    /\ UNCHANGED <<isPTTActive, sessionStatus, voiceAudioStream, isVoiceMode, sessionRef,
                   audioElementRef, sessions, conn, statusChanges, timers>>
    /\ UNCHANGED transcriptVars
    /\ UNCHANGED eventVars
    /\ UNCHANGED <<modalVars, chatVars, forwardVars>>

\* handlePTTEnd(): isPTTActive and isPTTUserSpeaking are the values the
\* callback closed over (deps [isPTTActive, isPTTUserSpeaking])
HandlePTTEnd ==
    /\ Called("handlePTTEnd")
    /\ unmatchedOn' = NoSession
    /\ IF sessionRef = NoSession \/ ~rendered.isPTTActive \/ ~rendered.isPTTUserSpeaking
          THEN UNCHANGED <<isPTTUserSpeaking, rendered, sent>>
          ELSE /\ isPTTUserSpeaking' = FALSE
               /\ rendered' = [rendered EXCEPT !.isPTTUserSpeaking = FALSE]
               /\ SendEvents(sessionRef, <<Event("input_audio_buffer.commit"),
                                           Event("response.create")>>)
    /\ UNCHANGED <<isPTTActive, sessionStatus, voiceAudioStream, isVoiceMode, sessionRef,
                   audioElementRef, sessions, conn, statusChanges, timers>>
    /\ UNCHANGED transcriptVars
    /\ UNCHANGED eventVars
    /\ UNCHANGED <<modalVars, chatVars, forwardVars>>

\* a voice session on which push-to-talk is used: it connects, is
\* reconfigured and talked to, and is closed
PTTNext ==
    \/ Render
    \/ ToggleVoiceModeOn
    \/ ToggleVoiceModeOff
    \/ \E c \in Calls : KeyFetched(c)
    \/ \E c \in Calls : HandshakeOk(c)
    \/ \E usePTT \in BOOLEAN : UpdateTurnDetection(usePTT)
    \/ HandlePTTStart
    \/ HandlePTTEnd

\* ---------------------------------------------------------------------
\* useVoiceToChat({ isVoiceMode, currentThreadId, onVoiceMessage }): the
\* hook that hands the items of the transcript to onVoiceMessage.

MaxToggles == 3

\* the items the transcript may get, by what the hook reads of an item:
\* itemId, type, role (Undefined: none) and text ("" for none)
ItemShapes ==
    {[type |-> "MESSAGE", role |-> "user", text |-> "hi"],
     [type |-> "MESSAGE", role |-> "assistant", text |-> ""],
     [type |-> "MESSAGE", role |-> Undefined, text |-> "hi"],
     [type |-> "BREADCRUMB", role |-> "assistant", text |-> "hi"]}

VoiceThreads == {"t1", "t2"}

\* item.type === 'MESSAGE' && item.role && item.text
Forwardable(item) ==
    item.type = "MESSAGE" /\ item.role # Undefined /\ item.text # ""

\* transcriptItems.forEach(...) of the first effect: [processed, calls] after
\* the items from position i on, starting from [processed, calls]
RECURSIVE ForEachItem(_, _, _)
ForEachItem(items, i, acc) ==
    IF i > Len(items) THEN acc
    ELSE LET item == items[i]
         IN  IF item.itemId \in acc.processed THEN ForEachItem(items, i + 1, acc)
             ELSE IF Forwardable(item)
                     THEN ForEachItem(items, i + 1,
                             [processed |-> acc.processed \cup {item.itemId},
                              calls |-> Append(acc.calls,
                                          [itemId |-> item.itemId, content |-> item.text,
                                           role |-> IF item.role = "user" THEN "USER"
                                                                         ELSE "ASSISTANT"])])
                     ELSE ForEachItem(items, i + 1, acc)

\* the first effect, run with the options of the render
ForwardEffect(items, isVoice, threadId, acc) ==
    IF ~isVoice \/ threadId = NoThread THEN acc
    ELSE ForEachItem(items, 1, acc)

\* the second effect (deps [isVoiceMode, currentThreadId]), run when one of
\* them changed: the set is cleared when voice mode is off
ClearEffect(isVoice, depsChanged, acc) ==
    IF depsChanged /\ ~isVoice THEN [acc EXCEPT !.processed = {}] ELSE acc

\* a render of the hook with new options, and its effects in their order
VoiceToChatRender(items, isVoice, threadId) ==
    LET acc == ClearEffect(isVoice, isVoice # voiceMode \/ threadId # voiceThread,
                   ForwardEffect(items, isVoice, threadId,
                       [processed |-> processedItemsRef, calls |-> voiceMessages]))
    IN  /\ voiceItems' = items
        /\ voiceMode' = isVoice
        /\ voiceThread' = threadId
        /\ processedItemsRef' = acc.processed
        /\ voiceMessages' = acc.calls

ForwardInit ==
    /\ voiceItems = <<>>
    /\ voiceMode = FALSE
    /\ voiceThread = NoThread
    /\ processedItemsRef = {}
    /\ voiceMessages = <<>>
    /\ voiceToggles = 0

ForwardQuiet ==
    /\ UNCHANGED sessionVars
    /\ UNCHANGED transcriptVars
    /\ UNCHANGED <<speakingState, loggedEvents, delivered, thrown>>
    /\ UNCHANGED <<history, pttVars, modalVars, chatVars>>

\* the transcript gets an item of a new itemId
ItemAdded(x, shape) ==
    /\ \A i \in 1..Len(voiceItems) : voiceItems[i].itemId # x
    /\ VoiceToChatRender(
          Append(voiceItems, [itemId |-> x, type |-> shape.type, role |-> shape.role,
                              text |-> shape.text]),
          voiceMode, voiceThread)
    /\ UNCHANGED voiceToggles
    /\ ForwardQuiet

\* an item without text gets its text
ItemTextSet(i) ==
    /\ i \in 1..Len(voiceItems)
    /\ voiceItems[i].text = ""
    /\ VoiceToChatRender([voiceItems EXCEPT ![i].text = "hi"], voiceMode, voiceThread)
    /\ UNCHANGED voiceToggles
    /\ ForwardQuiet

\* voice mode is enabled or disabled
VoiceModeSet(enabled) ==
    /\ enabled # voiceMode
    /\ voiceToggles < MaxToggles
    /\ voiceToggles' = voiceToggles + 1
    /\ VoiceToChatRender(voiceItems, enabled, voiceThread)
    /\ ForwardQuiet

\* a thread is selected
VoiceThreadSet(t) ==
    /\ t # voiceThread
    /\ VoiceToChatRender(voiceItems, voiceMode, t)
    /\ UNCHANGED voiceToggles
    /\ ForwardQuiet

ForwardNext ==
    \/ \E x \in ItemIds, shape \in ItemShapes : ItemAdded(x, shape)
    \/ \E i \in 1..Cardinality(ItemIds) : ItemTextSet(i)
    \/ \E enabled \in BOOLEAN : VoiceModeSet(enabled)
    \/ \E t \in VoiceThreads : VoiceThreadSet(t)

\* ---------------------------------------------------------------------
\* ChatInterface (text chat): sendMessage, createNewThread, and the routes
\* POST /api/chat/threads and POST /api/chat/completion with
\* processChatMessage.

\* take: 50 of the history query
HistoryLimit == 50

\* the exchanges (one USER row, one ASSISTANT row) the first thread may hold
\* at the start
MaxExchanges == 26

MaxThreads == 3

MaxSends == 2

NoChatThread == 0

NoRow == 0

\* what the user typed: nothing, white space, a text
Contents == {"", " ", "hi"}

Trim(content) == IF content = " " THEN "" ELSE content

\* JavaScript truthiness of a string
NonEmpty(content) == content # ""

NoChatCall ==
    [pc |-> "idle", caller |-> "none", threadId |-> NoChatThread,
     content |-> "", attachments |-> FALSE, fresh |-> FALSE]

\* the rows k earlier exchanges left in thread 1: USER and ASSISTANT in turn
StoredRow(i) ==
    [id |-> i, threadId |-> 1,
     role |-> IF i % 2 = 1 THEN "USER" ELSE "ASSISTANT",
     content |-> "old", attachments |-> FALSE]

Stored(k) == [i \in 1..(2 * k) |-> StoredRow(i)]

\* prisma.message.create: the new row is the latest by createdAt
MessageRowCreate(table, threadId, role, content, attachments) ==
    Append(table, [id |-> Len(table) + 1, threadId |-> threadId, role |-> role,
                   content |-> content, attachments |-> attachments])

\* prisma.message.findMany({ where: { threadId }, orderBy: { createdAt: 'asc' },
\* take }): the rows of the thread, oldest first, cut after `take` rows
FindMany(table, threadId, take) ==
    LET rows == SelectSeq(table, LAMBDA m : m.threadId = threadId)
    IN  SubSeq(rows, 1, Min(take, Len(rows)))

\* the conversion of one stored row to the OpenAI format; `row` keeps the id
\* of the row an entry was made from (NoRow: made from no row)
ToOpenAI(m) ==
    IF m.role = "USER"
       THEN <<[role |-> "user", text |-> m.content, image |-> m.attachments, row |-> m.id]>>
       ELSE IF m.role = "ASSISTANT"
               THEN <<[role |-> "assistant", text |-> m.content, image |-> FALSE, row |-> m.id]>>
               ELSE <<>>

RECURSIVE ConvertRows(_)
ConvertRows(rows) ==
    IF rows = <<>> THEN <<>>
    ELSE ToOpenAI(Head(rows)) \o ConvertRows(Tail(rows))

\* processChatMessage up to chat.completions.create: the messages it sends
ProcessChatMessage(table, threadId, message, attachments) ==
    <<[role |-> "system", text |-> "system", image |-> FALSE, row |-> NoRow]>>
       \o ConvertRows(FindMany(table, threadId, HistoryLimit))
       \o <<[role |-> "user", text |-> message, image |-> attachments, row |-> NoRow]>>

ChatInit ==
    /\ threadTable = 1
    /\ messageTable = <<>>
    /\ chatThreadId = NoChatThread
    /\ chatCall = NoChatCall
    /\ openaiMessages = <<>>
    /\ userMessage = NoRow
    /\ chatSends = 0

\* the text chat after k exchanges in its first thread, no thread selected
ChatStart ==
    /\ threadTable = 1
    /\ \E k \in 0..MaxExchanges : messageTable = Stored(k)
    /\ chatThreadId = NoChatThread
    /\ chatCall = NoChatCall
    /\ openaiMessages = <<>>
    /\ userMessage = NoRow
    /\ chatSends = 0

ChatQuiet ==
    /\ UNCHANGED sessionVars
    /\ UNCHANGED transcriptVars
    /\ UNCHANGED <<speakingState, loggedEvents, delivered, thrown>>
    /\ UNCHANGED <<history, pttVars, modalVars, forwardVars>>

\* onThreadSelect={setCurrentThreadId}
OnThreadSelect(t) ==
    /\ chatCall.pc = "idle"
    /\ t \in 1..threadTable
    /\ chatThreadId' = t
    /\ UNCHANGED <<threadTable, messageTable, chatCall, openaiMessages, userMessage,
                   chatSends>>
    /\ ChatQuiet

\* onNewThread={() => createNewThread()}: up to the fetch of /api/chat/threads
OnNewThread ==
    /\ chatCall.pc = "idle"
    /\ chatSends < MaxSends
    /\ threadTable < MaxThreads
    /\ chatSends' = chatSends + 1
    /\ chatCall' = [NoChatCall EXCEPT !.pc = "createNewThread", !.caller = "onNewThread"]
    /\ UNCHANGED <<threadTable, messageTable, chatThreadId, openaiMessages, userMessage>>
    /\ ChatQuiet

\* sendMessage(content, attachments) up to its first await: createNewThread's
\* fetch when no thread is current, the fetch of /api/chat/completion otherwise
SendMessage(content, attachments) ==
    /\ chatCall.pc = "idle"
    /\ chatSends < MaxSends
    /\ ~(~NonEmpty(Trim(content)) /\ ~attachments)
    /\ chatThreadId = NoChatThread => threadTable < MaxThreads
    /\ chatSends' = chatSends + 1
    /\ chatCall' =
          IF chatThreadId = NoChatThread
             THEN [pc |-> "createNewThread", caller |-> "sendMessage",
                   threadId |-> NoChatThread, content |-> content,
                   attachments |-> attachments, fresh |-> TRUE]
             ELSE [pc |-> "completion", caller |-> "sendMessage",
                   threadId |-> chatThreadId, content |-> content,
                   attachments |-> attachments, fresh |-> FALSE]
    /\ UNCHANGED <<threadTable, messageTable, chatThreadId, openaiMessages, userMessage>>
    /\ ChatQuiet

\* POST /api/chat/threads answers and createNewThread resumes: the thread is
\* created, with firstMessage as its first USER row when given; the client
\* makes it the current thread, and sendMessage goes on to the completion
ThreadsPost ==
    /\ chatCall.pc = "createNewThread"
    /\ LET id == threadTable + 1
           firstMessage == chatCall.content
       IN  /\ threadTable' = id
           /\ messageTable' =
                 IF chatCall.caller = "sendMessage" /\ NonEmpty(firstMessage)
                    THEN MessageRowCreate(messageTable, id, "USER", firstMessage, FALSE)
                    ELSE messageTable
           /\ chatThreadId' = id
           /\ chatCall' =
                 IF chatCall.caller = "sendMessage"
                    THEN [chatCall EXCEPT !.pc = "completion", !.threadId = id]
                    ELSE NoChatCall
    /\ UNCHANGED <<openaiMessages, userMessage, chatSends>>
    /\ ChatQuiet

\* POST /api/chat/completion answers and sendMessage ends: 400 without a
\* message; otherwise the USER row is stored, processChatMessage builds and
\* sends its messages, and (unless the model call failed) the ASSISTANT row
\* is stored
CompletionPost(ok) ==
    /\ chatCall.pc = "completion"
    /\ IF ~NonEmpty(chatCall.content)
          THEN UNCHANGED <<messageTable, openaiMessages, userMessage>>
          ELSE LET saved == MessageRowCreate(messageTable, chatCall.threadId, "USER",
                                             chatCall.content, chatCall.attachments)
               IN  /\ userMessage' = Len(saved)
                   /\ openaiMessages' = ProcessChatMessage(saved, chatCall.threadId,
                                                           chatCall.content,
                                                           chatCall.attachments)
                   /\ messageTable' =
                         IF ok THEN MessageRowCreate(saved, chatCall.threadId,
                                                     "ASSISTANT", "answer", FALSE)
                               ELSE saved
    /\ chatCall' = NoChatCall
    /\ UNCHANGED <<threadTable, chatThreadId, chatSends>>
    /\ ChatQuiet

ChatNext ==
    \/ \E t \in 1..MaxThreads : OnThreadSelect(t)
    \/ OnNewThread
    \/ \E content \in Contents, attachments \in BOOLEAN : SendMessage(content, attachments)
    \/ ThreadsPost
    \/ \E ok \in BOOLEAN : CompletionPost(ok)

Init == SessionInit /\ TranscriptInit /\ ModalInit /\ ChatInit /\ ForwardInit

SpecForward == Init /\ [][ForwardNext]_vars

\* the hooks as constructed, the text chat over a stored thread
InitChat == SessionInit /\ TranscriptInit /\ ModalInit /\ ChatStart /\ ForwardInit

SpecChat == InitChat /\ [][ChatNext]_vars

SpecPTT == Init /\ [][PTTNext]_vars

\* a transport event of session s reaches handleTransportEvent: the
\* listeners registered on a session are called while it is connected
SessionEvent(s, eventType) ==
    /\ sessions[s] = "connected"
    /\ SignalEvent(eventType)

\* the voice modal of a page in voice mode: the session is toggled on and
\* off and connects, the modal's effect runs, its loop analyses frames
AudioNext ==
    \/ HandleVoiceToggleOn
    \/ ToggleVoiceModeOn
    \/ ToggleVoiceModeOff
    \/ \E c \in Calls : KeyFetched(c)
    \/ \E c \in Calls : HandshakeOk(c)
    \/ \E f \in Frames : ModalEffect(f)
    \/ \E f \in Frames : AnimateFrame(f)

SpecAudio == Init /\ [][AudioNext]_vars

\* the voice session and what hangs on it: it is toggled on and off,
\* connects and delivers events; the modal's effect runs, its loop analyses
\* frames (of silence)
ModalNext ==
    \/ Render
    \/ HandleVoiceToggleOn
    \/ HandleVoiceToggleOff
    \/ ToggleVoiceModeOn
    \/ ToggleVoiceModeOff
    \/ \E c \in Calls : KeyFetched(c)
    \/ \E c \in Calls : HandshakeOk(c)
    \/ ModalEffect(Silence)
    \/ AnimateFrame(Silence)
    \/ \E s \in SessionIds : SessionEvent(s, "session.updated")

SpecModal == Init /\ [][ModalNext]_vars

Next == SessionNext

Spec == Init /\ [][Next]_vars

\* the dispatcher with every kind of transport event
DispatchNext ==
    \/ TranscriptNext
    \/ \E e \in SignalTypes : SignalEvent(e)

SpecDispatch == Init /\ [][DispatchNext]_vars

\* the dispatcher with the events that lack a field
MalformedNext ==
    \/ TranscriptNext
    \/ \E x \in ItemIds : RoleOf[x] = "assistant" /\ TranscriptDelta(x, Empty)
    \/ \E ev \in IncompleteEvents : IncompleteEvent(ev)
    \/ \E h \in Histories : AgentHandoff(h)

SpecMalformed == Init /\ [][MalformedNext]_vars

GuardrailNext ==
    \/ \E x \in GuardItems, t \in {Empty, <<"a">>} : HistoryGrows(x, t)
    \/ \E m \in Moderations : GuardrailTripped(m)

\* the guardrail path: the history grows, guardrails trip
SpecGuardrail == Init /\ [][GuardrailNext]_vars

\* the transcript path: one page, its voice session, the events it delivers
\* and the persistence requests they cause
SpecTranscript == Init /\ [][TranscriptNext]_vars

(***************************************************************************)
(* Claims about the session lifecycle (checked under Spec)                 *)
(***************************************************************************)
ConnectFailures == {"noKey", "ctorThrew", "handshakeRejected"}

InFlight == {c \in Calls : conn[c].pc # "idle"}

\* C1: at most one connect() attempt is in flight at any time: a connect()
\* called while an earlier one is still suspended at its credential fetch or
\* handshake returns at once and starts no second attempt.
C1_AtMostOneConnectInFlight == Cardinality(InFlight) <= 1

\* C2: when connect() ends in a failure (no credential, the session
\* constructor threw, the handshake was rejected), status is DISCONNECTED,
\* sessionRef holds no session and the audio element is no longer allocated.
C2_FailedConnectReleasesAll ==
    [][\A c \in Calls :
          (conn[c].pc # "idle" /\ conn'[c].pc = "idle" /\ conn'[c].res \in ConnectFailures)
             => (sessionStatus' = "DISCONNECTED" /\ sessionRef' = NoSession
                 /\ audioElementRef' = FALSE)]_vars

\* C3: sessionStatus changes only by DISCONNECTED->CONNECTING,
\* CONNECTING->CONNECTED and CONNECTING|CONNECTED->DISCONNECTED; never from
\* DISCONNECTED straight to CONNECTED.
StatusStepAllowed(a, b) ==
    \/ a = b
    \/ a = "DISCONNECTED" /\ b = "CONNECTING"
    \/ a = "CONNECTING" /\ b = "CONNECTED"
    \/ a \in {"CONNECTING", "CONNECTED"} /\ b = "DISCONNECTED"

C3_StatusStepsInOrder == [][StatusStepAllowed(sessionStatus, sessionStatus')]_vars

(***************************************************************************)
(* Claims about the transcript and its persistence (checked under          *)
(* SpecTranscript)                                                         *)
(***************************************************************************)
Entries(x) == {i \in 1..Len(transcriptItems) : transcriptItems[i].itemId = x}

Rows(x) == {i \in 1..Len(db) : db[i].externalId = x}

EntriesAfter(x) == {i \in 1..Len(transcriptItems') : transcriptItems'[i].itemId = x}

\* the events recorded for x are one ItemCreated followed by deltas only
CreatedThenDeltas(x) ==
    /\ Len(hist[x]) >= 2
    /\ hist[x][1].type = "created"
    /\ \A i \in 2..Len(hist[x]) : hist[x][i].type = "delta"

RECURSIVE ConcatDeltas(_, _)
ConcatDeltas(h, i) ==
    IF i > Len(h) THEN Empty ELSE h[i].text \o ConcatDeltas(h, i + 1)

\* no persistence round trip is outstanding
Quiescent == reqs = {}

\* C4: after ItemCreated and deltas d1..dn for item X the text of X is
\* d1+...+dn, in the session transcript and, once every persistence round trip
\* has finished, in the stored message.
C4_DeltasAppendInOrder ==
    \A x \in ItemIds :
        CreatedThenDeltas(x) =>
            /\ \A i \in Entries(x) : transcriptItems[i].title = ConcatDeltas(hist[x], 2)
            /\ Quiescent => \A i \in Rows(x) : db[i].content = ConcatDeltas(hist[x], 2)

\* the step is the delivery of TranscriptCompleted{x, t}
CompletedStep(x, t) ==
    hist'[x] = Append(hist[x], [type |-> "completed", text |-> t])

\* after the step x has exactly one session record, with text t, Done
OneDoneRecord(x, t) ==
    /\ Cardinality(EntriesAfter(x)) = 1
    /\ \A i \in EntriesAfter(x) :
          transcriptItems'[i].title = t /\ transcriptItems'[i].status = "DONE"

CreatedStep(x) ==
    hist'[x] = Append(hist[x], [type |-> "created", text |-> Empty])

\* C6: an ItemCreated for an item that already has a session record leaves
\* the session transcript unchanged, and the write of an ItemCreated that
\* finds a stored message of that itemId leaves the stored messages unchanged.
C6_DuplicateItemCreatedIsNoOp ==
    [][/\ \A x \in ItemIds :
             (CreatedStep(x) /\ Entries(x) # {}) => transcriptItems' = transcriptItems
       /\ \A r \in reqs :
             (r.kind = "POST" /\ r.phase = "update" /\ r \notin reqs') => db' = db]_vars

\* C7: at most one session record per itemId and at most one stored message
\* per externalId, in every state.
C7_OneRecordPerItem ==
    \A x \in ItemIds : Cardinality(Entries(x)) <= 1 /\ Cardinality(Rows(x)) <= 1

\* two ItemCreated came for the item, their writes overlapped: both looked the
\* message up before either stored it, one stored it, the other was rejected
C7_Witness ==
    \E x \in ItemIds :
        /\ Cardinality(Entries(x)) = 1
        /\ Cardinality(Rows(x)) = 1
        /\ [kind |-> "POST", externalId |-> x, status |-> 500] \in serverLog

\* the session record of x after the step differs from the one before
EntryChanges(x) ==
    {transcriptItems'[i] : i \in EntriesAfter(x)} # {transcriptItems[i] : i \in Entries(x)}

\* the text a write for a record with this text carries: a new record with no
\* text yet is written as the placeholder
WrittenText(title) == IF title = Empty THEN PlaceholderText ELSE title

\* C8: every event that changes the session record of an item dispatches a
\* persistence write for that item carrying the record's resulting text.
C8_EveryChangeIsWritten ==
    [][\A x \in ItemIds :
          EntryChanges(x) =>
             \A i \in EntriesAfter(x) :
                \E r \in reqs' \ reqs :
                    /\ r.kind \in {"POST", "PATCH"}
                    /\ r.externalId = x
                    /\ r.content = WrittenText(transcriptItems'[i].title)]_vars

\* C9: a delta's or a completion's write that is answered leaves a stored
\* message of its itemId holding the text it carried, whether or not one
\* existed before.
C9_UpdateWriteIsUpsert ==
    [][\A r \in reqs :
          (r.kind = "PATCH" /\ Truthy(r.content) /\ r \notin reqs')
             => \E i \in 1..Len(db') :
                   db'[i].externalId = r.externalId /\ db'[i].content = r.content]_vars

\* the last event recorded for x is a completion with an empty transcript or a
\* lone newline
CompletedInaudible(x) ==
    /\ hist[x] # <<>>
    /\ hist[x][Len(hist[x])].type = "completed"
    /\ hist[x][Len(hist[x])].text \in {Empty, Newline}

\* C10: once an item's completion carried an empty transcript or a lone
\* newline, its session record holds '[inaudible]' and, once every persistence
\* round trip has finished, so does its stored message.
C10_InaudibleIsStored ==
    \A x \in ItemIds :
        CompletedInaudible(x) =>
            /\ \A i \in Entries(x) : transcriptItems[i].title = InaudibleText
            /\ Quiescent => \A i \in Rows(x) : db[i].content = InaudibleText

\* the session records of x in a transcript, the stored messages of x in a table
EntriesIn(items, x) == SelectSeq(items, LAMBDA e : e.itemId = x)

RowsIn(rows, x) == SelectSeq(rows, LAMBDA m : m.externalId = x)

\* C11: whatever events and requests of other items are interleaved, the
\* session record and the stored message of an item are those of the run that
\* is given this item's events and requests alone.
C11_ItemsAreIndependent ==
    \A x \in ItemIds :
        /\ EntriesIn(transcriptItems, x) = EntriesIn(solo[x].items, x)
        /\ RowsIn(db, x) = RowsIn(solo[x].db, x)

\* the events of m1 and m2 were interleaved, both have a record and a stored
\* message, and a completion of one of them was stored
C11_Witness ==
    /\ \A x \in ItemIds : hist[x] # <<>> /\ Entries(x) # {} /\ Rows(x) # {}
    /\ \E i \in 1..Len(db) : db[i].content = <<"a", "b">>
    /\ \E i \in 1..Len(db) : db[i].content = PlaceholderText

RowsAfter(x) == {i \in 1..Len(db') : db'[i].externalId = x}

\* C12: in every step a Done record stays Done, a record whose text is past
\* the placeholder does not get the placeholder back, and a stored message
\* whose text is past the placeholder does not get the placeholder back.
C12_LifecycleOnlyForward ==
    [][\A x \in ItemIds :
          /\ \A i \in Entries(x), j \in EntriesAfter(x) :
                /\ transcriptItems[i].status = "DONE" => transcriptItems'[j].status = "DONE"
                /\ transcriptItems[i].title \notin {Empty, PlaceholderText}
                      => transcriptItems'[j].title \notin {Empty, PlaceholderText}
          /\ \A i \in Rows(x), j \in RowsAfter(x) :
                db[i].content # PlaceholderText => db'[j].content # PlaceholderText]_vars

\* the step is the delivery of TranscriptDelta{x, d}
DeltaStep(x, d) ==
    hist'[x] = Append(hist[x], [type |-> "delta", text |-> d])

\* C13: a TranscriptDelta for an item whose text is still the placeholder
\* makes the delta the text of its session record, and dispatches a write
\* that stores the delta (not placeholder + delta) as its message.
C13_FirstDeltaReplacesPlaceholder ==
    [][\A x \in ItemIds, d \in Deltas :
          DeltaStep(x, d) =>
             /\ \A i \in Entries(x), j \in EntriesAfter(x) :
                   transcriptItems[i].title \in {Empty, PlaceholderText}
                      => transcriptItems'[j].title = d
             /\ \A i \in Rows(x) :
                   db[i].content = PlaceholderText
                      => \E r \in reqs' \ reqs :
                            r.kind = "PATCH" /\ r.externalId = x /\ r.content = d]_vars

\* the completion TranscriptCompleted{x, t} is delivered right after the same
\* completion
SecondCompletedStep(x, t) ==
    /\ CompletedStep(x, t)
    /\ hist[x] # <<>>
    /\ hist[x][Len(hist[x])] = [type |-> "completed", text |-> t]

\* C14: the second of two equal TranscriptCompleted events, delivered when
\* the writes of the earlier events have been answered, leaves the session
\* transcript as the first left it (same text, Done, one record) and causes no
\* write that changes the stored message of the item.
C14_CompletedTwiceIsOnce ==
    [][\A x \in ItemIds, t \in Transcripts :
          (SecondCompletedStep(x, t) /\ Quiescent) =>
             /\ transcriptItems' = transcriptItems
             /\ \A r \in reqs' \ reqs, i \in Rows(x) :
                   r.externalId = x => db[i].content = r.content]_vars

(***************************************************************************)
(* More claims about the session lifecycle (checked under Spec)            *)
(***************************************************************************)
\* a step that is a call of disconnect(): not a render, not a connect()
\* starting or resuming, not a timeout, not a change of the voice-mode flag
DisconnectCallStep ==
    /\ conn' = conn
    /\ rendered' = rendered
    /\ timers' = timers
    /\ isVoiceMode' = isVoiceMode

\* an earlier disconnect() has closed a session and left the hook disconnected
AlreadyDisconnected ==
    /\ sessionStatus = "DISCONNECTED"
    /\ sessionRef = NoSession
    /\ audioElementRef = FALSE
    /\ \E s \in SessionIds : sessions[s] = "closed"

\* C15: disconnect() called again when an earlier disconnect() has left the
\* hook DISCONNECTED changes neither status, session handle, audio element nor
\* any session, and makes no status-change notification.
C15_DisconnectIdempotent ==
    [][(AlreadyDisconnected /\ DisconnectCallStep)
          => UNCHANGED <<sessionStatus, sessionRef, audioElementRef, sessions,
                         statusChanges>>]_vars

\* C16: when the greeting timeout of a session that was connected and has
\* since been closed by disconnect() expires, no greeting event is sent on
\* any session and no greeting item is added to the transcript.
C16_DisconnectCancelsGreeting ==
    [][\A t \in timers :
          (t \notin timers' /\ t.onOpen /\ sessions[t.sess] = "closed")
             => (sent' = sent /\ transcriptItems' = transcriptItems)]_vars

\* the greeting events sent on session s, in order
GreetingsSent(s) == SelectSeq(sent[s], LAMBDA e : e.type \in {"conversation.item.create",
                                                         "response.create"})

\* C17: on every session at most one greeting is sent, as one
\* conversation.item.create followed by one response.create; a session that
\* is connected and current with no connect() and no greeting timeout pending
\* has been sent exactly one.
C17_OneGreetingPerConnection ==
    \A s \in SessionIds :
        /\ GreetingsSent(s) \in {<<>>, GreetingEvents}
        /\ (/\ sessions[s] = "connected" /\ sessionRef = s
            /\ timers = {} /\ InFlight = {})
              => GreetingsSent(s) = GreetingEvents

\* C18: a connect() that ends because no secret was returned leaves status
\* DISCONNECTED, has constructed no session and leaves no audio element
\* allocated.
C18_NoSecretAllocatesNothing ==
    [][\A c \in Calls :
          (conn[c].pc = "awaitKey" /\ conn'[c].pc = "idle" /\ conn'[c].res = "noKey")
             => (/\ sessionStatus' = "DISCONNECTED"
                 /\ sessions' = sessions
                 /\ audioElementRef' = FALSE)]_vars

\* C19: when a connect() has failed, no connect() is in progress, status is
\* DISCONNECTED and the hook has re-rendered, the next connect() is not turned
\* away by the guard: it starts a new attempt.
C19_FailedConnectCanRetry ==
    (/\ sessionStatus = "DISCONNECTED"
     /\ InFlight = {}
     /\ rendered = Snapshot
     /\ \E c \in Calls : conn[c].res \in ConnectFailures)
       => ~ConnectGuardReturns

(***************************************************************************)
(* Claims about the dispatcher (checked under SpecDispatch)                *)
(***************************************************************************)
\* the step is the delivery of a transport event of type e
DeliveryStep(e) == delivered' = Append(delivered, e)

\* C20: the delivery of an event of a type handleTransportEvent has no case
\* for logs the event and changes neither the session transcript, the session
\* status, the speaker flag, the stored messages nor the requests in flight.
C20_UnknownEventOnlyLogged ==
    [][\A e \in OtherTypes :
          DeliveryStep(e) =>
             /\ loggedEvents' = Append(loggedEvents, e)
             /\ UNCHANGED <<transcriptItems, sessionStatus, speakingState, db, reqs,
                            messages, serverLog, consoleErrors>>]_vars

\* while the user is speaking and an item is stored, an unrecognized event
\* came and was logged
C20_Witness ==
    /\ speakingState = "user"
    /\ db # <<>>
    /\ loggedEvents # <<>>
    /\ delivered[Len(delivered)] \in OtherTypes

(***************************************************************************)
(* Claims about events that lack a field (checked under SpecMalformed)     *)
(***************************************************************************)
MalformedTags ==
    {ev.tag : ev \in IncompleteEvents} \cup
    {"agent_handoff, empty history", "agent_handoff, last message without name",
     "agent_handoff, last message not a transfer"}

\* C21: an event that lacks a required field is dropped: handling it throws
\* nothing and changes no transcript entry; a delta or completed event
\* that lacks only its text changes no entry of another item.
C21_MalformedEventIsDropped ==
    [][/\ \A tag \in MalformedTags :
              delivered' = Append(delivered, tag)
                 => thrown' = thrown /\ transcriptItems' = transcriptItems
       /\ \A x \in ItemIds :
              (/\ Len(hist'[x]) = Len(hist[x]) + 1
               /\ hist'[x][Len(hist'[x])].type \in {"delta", "completed"}
               /\ hist'[x][Len(hist'[x])].text = Empty)
                 => /\ thrown' = thrown
                    /\ \A y \in ItemIds \ {x} :
                          EntriesIn(transcriptItems', y) = EntriesIn(transcriptItems, y)]_vars

(***************************************************************************)
(* Claims about failed persistence writes (checked under SpecTranscript)   *)
(***************************************************************************)
\* this step answers the write r with an error status
FailedWriteStep(r) ==
    /\ r \in reqs
    /\ r \notin reqs'
    /\ CASE r.kind = "POST" /\ r.phase = "sent" ->
                r.threadId = NoThread \/ ~Truthy(r.content)
         [] r.kind = "POST" /\ r.phase = "create" -> HasRow(db, r.externalId)
         [] r.kind = "PATCH" -> ~Truthy(r.content) \/ ~HasRow(db, r.externalId)
         [] OTHER -> FALSE

\* C22: a persistence write that fails is caught and reported: nothing is
\* thrown or rejected, the callback goes on to its reload, the voice session
\* stays on for the following events, and the in-session transcript is not
\* changed by the failure.
C22_WriteFailureIsContained ==
    [][\A r \in reqs :
          FailedWriteStep(r)
             => /\ thrown' = thrown
                /\ \E e \in consoleErrors' :
                      /\ e.fn = WriteFunction(r)
                      /\ e.externalId = r.externalId
                      /\ e.status # 200
                /\ Continuation(r) \subseteq reqs'
                /\ transcriptItems' = transcriptItems
                /\ voiceThreadIdRef' = voiceThreadIdRef
                /\ hist' = hist]_vars

\* a write for x failed, a later completed event for x was dispatched and
\* the in-session entry of x holds its transcript
C22_Witness ==
    \E e \in consoleErrors : \E x \in ItemIds :
       /\ e.externalId = x
       /\ Len(hist[x]) > e.seen
       /\ hist[x][Len(hist[x])].type = "completed"
       /\ Truthy(hist[x][Len(hist[x])].text)
       /\ \E i \in 1..Len(transcriptItems) :
             /\ transcriptItems[i].itemId = x
             /\ transcriptItems[i].status = "DONE"
             /\ transcriptItems[i].title = FinalTranscript(hist[x][Len(hist[x])].text)

(***************************************************************************)
(* Claims about guardrail verdicts (checked under SpecGuardrail)           *)
(***************************************************************************)
\* the transcript entries of assistant messages, by position
AssistantEntries == {i \in 1..Len(transcriptItems) : transcriptItems[i].role = "assistant"}

\* the assistant entry created last
NewestAssistantEntry == {i \in AssistantEntries : \A k \in AssistantEntries : k <= i}

TripStep == loggedEvents' = Append(loggedEvents, "guardrail_tripped")

\* the event of this step carries a moderation
TripWithModeration == delivered' = Append(delivered, "guardrail_tripped, moderation")

CallStep(fn) == pttCalls' = pttCalls + 1 /\ lastCall' = fn

\* sessionRef holds a connected session
LiveSession == sessionRef # NoSession /\ sessions[sessionRef] = "connected"

\* the buffer events sent on session s, in order
BufferEvents(s) ==
    SelectSeq(sent[s], LAMBDA e : e.type \in {"input_audio_buffer.clear",
                                              "input_audio_buffer.commit"})

SentMore(events) == sent' = [sent EXCEPT ![sessionRef] = @ \o events]

Alternate(s) ==
    \A i \in 1..Len(BufferEvents(s)) :
       BufferEvents(s)[i].type = IF i % 2 = 1 THEN "input_audio_buffer.clear"
                                              ELSE "input_audio_buffer.commit"

\* C25: start() and end() send nothing while push-to-talk is not the active
\* mode, and on every session the buffer-clear and buffer-commit events
\* alternate, beginning with a clear: a start() before the end() of the
\* start() before it sends no second clear.
C25_ClearCommitAlternate ==
    /\ [](\A s \in SessionIds : Alternate(s))
    /\ [][((CallStep("handlePTTStart") \/ CallStep("handlePTTEnd")) /\ ~isPTTActive)
             => sent' = sent]_vars

\* C26: updateTurnDetection(usePTT) on a connected session sends one
\* session.update, with turn_detection null for usePTT and the server_vad
\* configuration (threshold 0.9, prefix padding 300 ms, silence 500 ms,
\* create_response) otherwise, and leaves the status, the session held and
\* every session as they were.
C26_TurnDetectionUpdate ==
    [][\A usePTT \in BOOLEAN :
          (CallStep(IF usePTT THEN "updateTurnDetection(true)"
                              ELSE "updateTurnDetection(false)") /\ LiveSession)
             => /\ SentMore(<<[type |-> "session.update",
                               turn_detection |->
                                  IF usePTT
                                     THEN NullTurnDetection
                                     ELSE [type |-> "server_vad", threshold |-> "0.9",
                                           prefix_padding_ms |-> 300,
                                           silence_duration_ms |-> 500,
                                           create_response |-> TRUE]]>>)
                /\ UNCHANGED <<sessionStatus, statusChanges, sessionRef, sessions, conn,
                               audioElementRef, timers, isVoiceMode>>]_vars

\* a connected session was switched to push-to-talk and back to voice
\* activity detection
C26_Witness ==
    /\ LiveSession
    /\ lastCall = "updateTurnDetection(false)"
    /\ Len(sent[sessionRef]) >= 2
    /\ sent[sessionRef][Len(sent[sessionRef]) - 1] =
          [type |-> "session.update", turn_detection |-> NullTurnDetection]
    /\ sent[sessionRef][Len(sent[sessionRef])] =
          [type |-> "session.update", turn_detection |-> ServerVad]

(***************************************************************************)
(* Claims on the audio features (SpecAudio)                                *)
(***************************************************************************)
\* C27: after every frame, whatever the samples were, the smoothed volume,
\* bass, mid and treble are all within [0,1] (0..Unit in thousandths).
C27_SmoothedFeaturesBounded ==
    \A k \in Features : smoothedData[k] >= 0 /\ smoothedData[k] <= Unit

\* a loop whose closure holds a full-scale volume has smoothed two frames or
\* more, and the smoothed volume has risen
C27_Witness ==
    /\ frames >= 2
    /\ loopData["volume"] = Unit
    /\ smoothedData["volume"] > 0

\* the index ranges [0, floor(0.1 n)), [floor(0.1 n), floor(0.5 n)) and
\* [floor(0.5 n), n) of n bins
BandRanges(n) ==
    [bass   |-> {i \in 0..(n - 1) : i < n \div 10},
     mid    |-> {i \in 0..(n - 1) : i >= n \div 10 /\ i < n \div 2},
     treble |-> {i \in 0..(n - 1) : i >= n \div 2}]

\* the sum of the bins of frequencyData whose indices are in S
RECURSIVE RangeSum(_, _)
RangeSum(frequencyData, S) ==
    IF S = {} THEN 0
    ELSE LET i == CHOOSE j \in S : TRUE
         IN  frequencyData[i + 1] + RangeSum(frequencyData, S \ {i})

\* C30: of the frame analysed last, bin i is counted in the band whose index
\* range holds i and in no other, and each band value is the sum of
\* value/255 over the bins of its range divided by the number of those bins,
\* which lies within [0,1].
C30_ThreeContiguousBands ==
    frame # NoFrame =>
        LET frequencyData == frame.frequencyData
            ranges == BandRanges(Len(frequencyData))
        IN  \A b \in {"bass", "mid", "treble"} :
               /\ \A i \in 0..(Len(frequencyData) - 1) : Band(i) = b <=> i \in ranges[b]
               /\ audioData[b] = (RangeSum(frequencyData, ranges[b]) * Unit)
                                    \div (ByteMax * Cardinality(ranges[b]))
               /\ audioData[b] >= 0 /\ audioData[b] <= Unit

\* the low tone has been analysed: the bass band is full, and the one bin of
\* the tone beyond it is counted in the mid band
C30_Witness ==
    /\ frame = LowTone
    /\ audioData["bass"] = Unit
    /\ audioData["mid"] > 0
    /\ audioData["treble"] = 0

(***************************************************************************)
(* Claims on what disconnect() takes down (SpecModal)                      *)
(***************************************************************************)
\* a step in which disconnect() ran: a DISCONNECTED notification made by no
\* connect() that ended
DisconnectStep ==
    /\ statusChanges' # statusChanges
    /\ sessionStatus' = "DISCONNECTED"
    /\ conn' = conn

\* no animation frame is requested, every AudioContext made is closed, and
\* no session is left whose events reach the handlers
AllTakenDown ==
    /\ ~animationFrameRef
    /\ audioContextRef = FALSE /\ openContexts = 0
    /\ \A s \in SessionIds : sessions[s] # "connected"

\* C28: once disconnect() has run, no animation frame is requested, the
\* audio analysis context is closed and no session is left connected to the
\* handlers; and while the status stays DISCONNECTED no frame is analysed and
\* no transport event is handled.
C28_DisconnectStopsEverything ==
    [][/\ DisconnectStep => AllTakenDown'
       /\ sessionStatus = "DISCONNECTED" => frames' = frames /\ delivered' = delivered]_vars

(***************************************************************************)
(* Claims on the persistence mirror (SpecTranscript)                       *)
(***************************************************************************)
\* the events of x began with its creation and end with a TranscriptCompleted
\* that carries a text, and no request for x is in flight
CompletedAndSettled(x) ==
    /\ hist[x] # <<>>
    /\ hist[x][1].type = "created"
    /\ hist[x][Len(hist[x])].type = "completed"
    /\ Truthy(hist[x][Len(hist[x])].text)
    /\ \A r \in reqs : r.externalId # x

\* C29: when the events of item X end with TranscriptCompleted and every
\* persistence request made for X has been answered, in whatever order, the
\* stored message of X holds the completed payload.
C29_MirrorConvergence ==
    \A x \in ItemIds :
        CompletedAndSettled(x) =>
            /\ Rows(x) # {}
            /\ \A i \in Rows(x) : db[i].content = hist[x][Len(hist[x])].text

(***************************************************************************)
(* Claims on what the smoothing follows (SpecAudio)                        *)
(***************************************************************************)
\* animate() has run a frame
FrameStep == frames' # frames

\* C31: the smoothing of a frame follows what analyzeAudio produces for the
\* stream: when the frame before and this frame were both analysed with a
\* positive volume the smoothed volume is positive afterwards, and when both
\* were analysed with volume 0 the smoothed volume does not rise.
C31_SmoothingFollowsAnalysis ==
    [][FrameStep =>
          /\ (audioData["volume"] > 0 /\ audioData'["volume"] > 0)
                => smoothedData'["volume"] > 0
          /\ (frame # NoFrame /\ audioData["volume"] = 0 /\ audioData'["volume"] = 0)
                => smoothedData'["volume"] <= smoothedData["volume"]]_vars

\* a completion request that reached processChatMessage is answered
CompletionStep ==
    /\ chatCall.pc = "completion"
    /\ chatCall'.pc = "idle"
    /\ NonEmpty(chatCall.content)

\* the ids of the rows the history part of the sent messages was made from
HistoryIds(sentMessages) ==
    LET fromRows == SelectSeq(sentMessages, LAMBDA e : e.row # NoRow)
    IN  [i \in 1..Len(fromRows) |-> fromRows[i].row]

\* the ids of the newest n rows thread t had when row `upTo` was its latest
NewestIds(table, t, upTo, n) ==
    LET rows == SelectSeq(table, LAMBDA m : m.threadId = t /\ m.id <= upTo)
        from == Max(1, Len(rows) - n + 1)
    IN  [i \in 1..(Len(rows) - from + 1) |-> rows[from + i - 1].id]

\* C32: the history processChatMessage sends is the newest 50 messages of the
\* thread, oldest first; of a thread with more than 50 messages the 50
\* newest are sent.
C32_HistoryIsNewestFifty ==
    [][CompletionStep =>
          HistoryIds(openaiMessages')
             = NewestIds(messageTable', chatCall.threadId, userMessage', HistoryLimit)]_vars

\* the entries of the sent messages that carry the new user message: the one
\* made from the row the request stored, and the one appended
NewMessageEntries(sentMessages, stored) ==
    {i \in DOMAIN sentMessages :
        \/ sentMessages[i].row = stored
        \/ sentMessages[i].row = NoRow /\ sentMessages[i].role = "user"}

\* C40: in the messages the completion endpoint sends to the model the new
\* user message occurs exactly once.
C40_NewMessageOnceInPrompt ==
    [][CompletionStep =>
          Cardinality(NewMessageEntries(openaiMessages', userMessage')) = 1]_vars

\* the USER rows of thread t that carry the content
UserRowsWith(table, t, content) ==
    {i \in DOMAIN table :
        table[i].threadId = t /\ table[i].role = "USER" /\ table[i].content = content}

\* C39: when a sendMessage made with no current thread has ended, the thread
\* it created holds exactly one USER message with the content sent.
C39_FirstMessageStoredOnce ==
    [][(chatCall.pc = "completion" /\ chatCall.fresh /\ chatCall'.pc = "idle") =>
          Cardinality(UserRowsWith(messageTable', chatCall.threadId, chatCall.content)) = 1]_vars

\* C33: whenever status is CONNECTED, sessionRef holds a session; a connect()
\* that resumes after disconnect() has run does not leave status CONNECTED
\* with no session held.
C33_ConnectedHoldsSession ==
    sessionStatus = "CONNECTED" => sessionRef # NoSession

\* the session.update events sent on session s, in order
SessionUpdates(s) == SelectSeq(sent[s], LAMBDA e : e.type = "session.update")

\* C34: whenever status is CONNECTED and no connect() is in flight, the
\* turn detection sent last on the session held is the one of the current
\* isPTTActive (null exactly for push-to-talk), also when
\* updateTurnDetection was called while a connect() was in flight.
C34_TurnDetectionFollowsFlag ==
    (/\ sessionStatus = "CONNECTED"
     /\ InFlight = {}
     /\ sessionRef # NoSession
     /\ SessionUpdates(sessionRef) # <<>>)
       => SessionUpdates(sessionRef)[Len(SessionUpdates(sessionRef))].turn_detection
             = TurnDetection(isPTTActive)

\* the events that start and stop the speech of a role
StartOf == [r \in Roles |-> IF r = "user" THEN "input_audio_buffer.speech_started"
                                           ELSE "response.created"]

StopOf == [r \in Roles |-> IF r = "user" THEN "input_audio_buffer.speech_stopped"
                                          ELSE "response.done"]

\* role r has started speaking and not stopped: of its start and stop events
\* the one delivered last is a start
IsSpeaking(r) ==
    LET own == SelectSeq(delivered, LAMBDA e : e \in {StartOf[r], StopOf[r]})
    IN  own # <<>> /\ own[Len(own)] = StartOf[r]

\* C35: the speaker flag is role r from a SpeechStarted{r} to the next
\* SpeechStopped{r}: the stop event of one role does not set the flag to idle
\* while the flag shows the other role, which has started and not stopped.
C35_StopOfOtherRoleKeepsFlag ==
    [][\A r \in Roles, o \in Roles :
          (/\ r # o
           /\ DeliveryStep(StopOf[r])
           /\ IsSpeaking(o)
           /\ speakingState = o)
             => speakingState' = o]_vars

\* C36: isPTTUserSpeaking is true only while push-to-talk is the active mode
\* and a session is held: neither updateTurnDetection(false) nor disconnect()
\* leaves it true.
C36_SpeakingOnlyUnderPTT ==
    isPTTUserSpeaking => (isPTTActive /\ sessionRef # NoSession)

\* a TranscriptCompleted for x has been delivered
HasCompleted(x) == \E i \in 1..Len(hist[x]) : hist[x][i].type = "completed"

\* C37: once an entry is Done its text is final: a TranscriptDelta for the
\* item delivered after its TranscriptCompleted leaves the text of its
\* session record as it was and dispatches no write to its stored message.
C37_DoneTextIsFinal ==
    [][\A x \in ItemIds, d \in Deltas :
          (DeltaStep(x, d) /\ HasCompleted(x)) =>
             /\ EntriesIn(transcriptItems', x) = EntriesIn(transcriptItems, x)
             /\ reqs' = reqs]_vars

\* the onVoiceMessage calls made for item x
ForwardedFor(x) == {i \in DOMAIN voiceMessages : voiceMessages[i].itemId = x}

====
